---- MODULE Spec2Model ----
(***************************************************************************)
(* A model of netdiag's demultiplexing fabric: the ping, knock and trace   *)
(* engines, their demux state (Key -> sender), the Leases that own the     *)
(* entries, the background receive loops and the caller-driven streams.    *)
(*                                                                         *)
(* An engine owns its own demux map, sockets and receive tasks and shares  *)
(* nothing with another engine, so one behaviour exercises one engine:     *)
(* Init picks the engine and only that engine's actions are enabled.       *)
(* SpecPing, SpecKnock and SpecTrace fix the engine; Spec leaves it open.  *)
(***************************************************************************)
EXTENDS Integers, Sequences, FiniteSets, TLC

\* ------------------------------------------------------------------ bounds

\* Most probes the streams of one behaviour ask for in total: the `count`s of
\* the concurrent ping / knock calls add up to at most this.
MaxCount == 2

\* The instants the clock runs through.
MaxClock == 2

\* Two concurrent callers (streams) per engine; 0 stands for "no sender".
Streams == {1, 2}
NoSender == 0

Engines == {"ping", "knock", "trace"}

\* The `count` inputs of the concurrent calls.
Counts == {c \in [Streams -> 0..MaxCount] : c[1] + c[2] <= MaxCount}
NoCounts == [s \in Streams |-> 0]

\* ---------------------------------------------------------------- constants

\* ping::probe::TOKEN_SIZE
TOKEN_SIZE == 16
\* icmp4::HEADER_SIZE
HEADER_SIZE == 8
\* the send buffer of ping::Sock4::send, [0u8; 64]
PING_BUF == 64
\* the number of u16 values (Probe.seq: u16)
U16 == 65536

VARIABLES
    engine,     \* the engine this behaviour exercises
    down,       \* the engine is dropped: impl Drop has sent the shutdown
                \* broadcast
    out,        \* per stream: the probes sent whose result the stream has
                \* not produced yet (none once the stream is dropped)
    \* ---- ping
    pmap,       \* ping::State: Token -> the stream whose oneshot Sender is stored
    ppc,        \* position of each ping stream
    pcount,     \* Ping.count of each stream
    pseq,       \* the try_unfold state: next ICMP sequence number
    ptoken,     \* token of the stream's current Probe
    prx,        \* the oneshot Receiver held by the stream's current Lease
    pitems,     \* items the stream has yielded
    pgot,       \* arrival timestamps sent to the current Lease's channel
    pnet,       \* tokens of echo requests on the wire (replies may still arrive)
    precv,      \* the background receive task
    clock,      \* the monotonic clock read by Instant::now()
    psent,      \* `sent` of the stream's current probe
    pwhen,      \* the Instant sent to the stream's oneshot Receiver
    prtt,       \* the Duration of the stream's last Some item
    \* ---- knock
    kmap,       \* knock::State: Key -> the stream whose Sender is stored
    kpc,        \* position of each knock() call / stream
    kcount,     \* Knock.count of each stream
    ksrc,       \* source port of the stream's Lease
    kseq,       \* seq of the stream's current Probe
    kq,         \* the replies queued in the stream's Receiver
    kitems,     \* items the stream has yielded
    khit,       \* a matching reply for the Key of the probe in flight reached
                \* the receive loop since the probe was sent
    knet,       \* seq of the SYNs on the wire
    krecv,      \* the receive task: running, or the send it is waiting in
    \* ---- trace
    ttcp,       \* trace::State.tcp: the reserved source ports
    tudp,       \* trace::State.udp: the reserved source ports
    ticmp,      \* the ids reserved for ICMP probes
    tpc,        \* position of each route() call
    tin,        \* the Trace of each call: proto, probes, limit
    tdist,      \* the network: hops to the target, 0 if nothing answers
    tfam,       \* the address family of the target (4 or 6)
    tsrc,       \* source port of the call's Lease
    tttl,       \* the try_unfold state of Tracer::trace: the row's ttl (u8)
    tdone,      \* the `done` flag of route's take_while closure
    trow,       \* the Nodes collected for the current row
    trows,      \* the rows try_collect has taken
    trx,        \* what the probe's broadcast Receiver has received
    tnet,       \* answers on their way to the call's source socket
    trecv,      \* the Tracer's background receive tasks
    \* ---- probes and packets
    cin,        \* the arguments a function of the probe and ICMP modules is
                \* called with
    cpc,        \* whether the call has returned, or panicked
    cout,       \* what the call returned; for increment(), the probe
    \* ---- the lock of the demux map
    mlock,      \* the task that holds the Mutex of the map, if any
    lpc         \* position of each task that uses the map

pvars == <<pmap, ppc, pcount, pseq, ptoken, prx, pitems, pgot, pnet, precv, clock, psent,
          pwhen, prtt>>

kvars == <<kmap, kpc, kcount, ksrc, kseq, kq, kitems, khit, knet, krecv>>

tvars == <<ttcp, tudp, ticmp, tpc, tin, tdist, tfam, tsrc, tttl, tdone, trow, trows, trx, tnet,
          trecv>>

cvars == <<cin, cpc, cout>>

lvars == <<mlock, lpc>>

vars == <<engine, cvars, lvars, down, out, pvars, kvars, tvars>>

\* ==================================================================== ping

\* Random 16-byte tokens: two values, so that two probes may draw the same.
Tokens == {"t1", "t2"}

\* Lengths of the echo data of an inbound echo reply: shorter than a token,
\* exactly a token, and what an honest peer echoes (the whole 64-byte request
\* minus the 8-byte header).
DataLens == {HEADER_SIZE, TOKEN_SIZE, PING_BUF - HEADER_SIZE}

\* A oneshot channel whose Sender is dropped unsent completes its Receiver
\* with RecvError.
CloseRx(rx, s) ==
    IF s # NoSender /\ rx[s] = "empty" THEN [rx EXCEPT ![s] = "closed"] ELSE rx

\* State::insert: HashMap::insert under the lock; a value already stored under
\* the token is returned by insert and dropped.
PingStateInsert(map, tok, s) == [map EXCEPT ![tok] = s]

\* A lookup that leaves the entry where it is (HashMap::get).
PingStateGet(map, tok) == map

\* State::remove: HashMap::remove under the lock.
PingStateRemove(map, tok) == [map EXCEPT ![tok] = NoSender]

\* The stream's probe future holds its Lease.
PLive(s) == ppc[s] \in {"sending", "sent", "waiting"}

\* impl Drop for Lease: state.remove(&self.token); the Receiver goes with it.
\* The Sender that remove returns is dropped.
PingLeaseDrop(s) ==
    LET tok    == ptoken[s]
        victim == pmap[tok]
    IN  /\ pmap' = PingStateRemove(pmap, tok)
        /\ prx'  = [CloseRx(prx, IF victim = s THEN NoSender ELSE victim)
                        EXCEPT ![s] = "none"]

\* Pinger::ping's closure up to the first await of Pinger::probe: a fresh Probe
\* (random token) and state.insert(probe.token).
PingInsert(s, tok) ==
    /\ engine = "ping"
    /\ ~down
    /\ ppc[s] = "idle"
    /\ Len(pitems[s]) < pcount[s]
    /\ pmap'   = PingStateInsert(pmap, tok, s)
    /\ prx'    = [CloseRx(prx, pmap[tok]) EXCEPT ![s] = "empty"]
    /\ ptoken' = [ptoken EXCEPT ![s] = tok]
    /\ pgot'   = [pgot EXCEPT ![s] = 0]
    /\ ppc'    = [ppc EXCEPT ![s] = "sending"]
    /\ psent'  = [psent EXCEPT ![s] = 0]
    /\ pwhen'  = [pwhen EXCEPT ![s] = 0]
    /\ UNCHANGED <<engine, cvars, lvars, down, out, kvars, tvars, clock, prtt, pcount, pseq,
                   pitems, pnet, precv>>

\* sock.send_to has put the request on the wire; Sock4::send has not yet
\* returned its Instant::now().  The reply may arrive from now on.
PingWire(s) ==
    /\ engine = "ping"
    /\ ppc[s] = "sending"
    /\ ppc'  = [ppc EXCEPT ![s] = "sent"]
    /\ pnet' = pnet \cup {ptoken[s]}
    /\ UNCHANGED <<engine, cvars, lvars, down, out, kvars, tvars, clock, psent, pwhen, prtt, pmap,
                   pcount, pseq, ptoken, prx, pitems, pgot, precv>>

\* A send after which the stream does not wait for the reply: it is still
\* about to send.
PingSendNoAwait(s) ==
    /\ engine = "ping"
    /\ ppc[s] = "sending"
    /\ pnet' = pnet \cup {ptoken[s]}
    /\ out' = [out EXCEPT ![s] = @ + 1]
    /\ UNCHANGED <<engine, cvars, lvars, down, kvars, tvars, clock, psent, pwhen, prtt, pmap,
                   ppc, pcount, pseq, ptoken, prx, pitems, pgot, precv>>

\* Sock4::send returned Ok(Instant::now()): the request is on the wire.
PingSendOk(s) ==
    /\ engine = "ping"
    /\ ppc[s] \in {"sending", "sent"}
    /\ ppc'  = [ppc EXCEPT ![s] = "waiting"]
    /\ pnet' = pnet \cup {ptoken[s]}
    /\ out' = [out EXCEPT ![s] = @ + 1]
    /\ psent' = [psent EXCEPT ![s] = clock]
    /\ UNCHANGED <<engine, cvars, lvars, down, kvars, tvars, clock, pwhen, prtt, pmap,
                   pcount, pseq, ptoken, prx, pitems, pgot, precv>>

\* An addition that does not wrap at the width of the counter.
U16PlainAdd(x) == x + 1

\* seq.wrapping_add(1) on the u16 sequence number.
U16WrappingAdd(x) == (x + 1) % U16

\* The error items of a stream: a failed send, a RecvError of the Receiver.
ErrItems == {"SendErr", "RecvErr"}

\* A stream that goes on to its next probe after any item, an Err included.
PingYieldOn(s, item) ==
    /\ pitems' = [pitems EXCEPT ![s] = Append(@, item)]
    /\ ppc'    = [ppc EXCEPT ![s] =
                    IF Len(pitems[s]) + 1 = pcount[s] THEN "done" ELSE "idle"]
    /\ pseq'   = [pseq EXCEPT ![s] = (@ + 1) % U16]

\* The item a finished probe contributes, and where the stream goes next:
\* take(count) ends the stream after count items, try_unfold after an Err.
PingYield(s, item) ==
    /\ pitems' = [pitems EXCEPT ![s] = Append(@, item)]
    /\ ppc'    = [ppc EXCEPT ![s] =
                    IF item \in ErrItems THEN "failed"
                    ELSE IF Len(pitems[s]) + 1 = pcount[s] THEN "done" ELSE "idle"]
    /\ pseq'   = [pseq EXCEPT ![s] = IF item \in ErrItems THEN @ ELSE U16WrappingAdd(@)]

\* self.send(probe).await? failed: the error is the stream's item.
PingSendFail(s) ==
    /\ engine = "ping"
    /\ ppc[s] = "sending"
    /\ PingYield(s, "SendErr")
    /\ PingLeaseDrop(s)
    /\ UNCHANGED <<engine, cvars, lvars, down, out, kvars, tvars, clock, psent, pwhen, prtt,
                   pcount, ptoken, pgot, pnet, precv>>

\* A subtraction of Instants that does not saturate.
DurationSince(when, sent) == when - sent

\* Instant::saturating_duration_since: zero when `sent` is later than `when`.
SaturatingDurationSince(when, sent) == IF when >= sent THEN when - sent ELSE 0

\* timeout(expiry, rx) completed with the Receiver's value: Some(rtt), or the
\* Receiver's RecvError through `r?`.
PingReply(s) ==
    /\ engine = "ping"
    /\ ppc[s] = "waiting"
    /\ prx[s] \in {"value", "closed"}
    /\ PingYield(s, IF prx[s] = "value" THEN "Some" ELSE "RecvErr")
    /\ PingLeaseDrop(s)
    /\ out' = [out EXCEPT ![s] = @ - 1]
    /\ prtt' = IF prx[s] = "value"
               THEN [prtt EXCEPT ![s] = SaturatingDurationSince(pwhen[s], psent[s])]
               ELSE prtt
    /\ UNCHANGED <<engine, cvars, lvars, down, kvars, tvars, clock, psent, pwhen, pcount,
                   ptoken, pgot, pnet, precv>>

\* timeout(expiry, rx) elapsed with nothing received: None.
PingTimeout(s) ==
    /\ engine = "ping"
    /\ ppc[s] = "waiting"
    /\ prx[s] = "empty"
    /\ PingYield(s, "None")
    /\ PingLeaseDrop(s)
    /\ out' = [out EXCEPT ![s] = @ - 1]
    /\ UNCHANGED <<engine, cvars, lvars, down, kvars, tvars, clock, psent, pwhen, prtt,
                   pcount, ptoken, pgot, pnet, precv>>

\* The caller drops the stream while a probe is in flight (at one of its
\* awaits): the probe future and its Lease are dropped.
PingCancel(s) ==
    /\ engine = "ping"
    /\ ppc[s] \in {"sending", "waiting"}
    /\ ppc' = [ppc EXCEPT ![s] = "dropped"]
    /\ PingLeaseDrop(s)
    /\ out' = [out EXCEPT ![s] = 0]
    /\ UNCHANGED <<engine, cvars, lvars, down, kvars, tvars, clock, psent, pwhen, prtt,
                   pcount, pseq, ptoken, pitems, pgot, pnet, precv>>

\* Token::try_from(echo.data): the slice converts to [u8; 16] only when it is
\* exactly 16 bytes long.
TokenTryFrom(dlen) == dlen = TOKEN_SIZE

\* Echo::try_from: &slice[4..TOKEN_SIZE + 4] is taken unconditionally, which
\* panics when the echo carries fewer than 16 bytes of data.
EchoTryFromPanics(dlen) == dlen < TOKEN_SIZE

\* ping::sock4::recv, one iteration on an ICMP echo reply carrying `tok` in
\* dlen bytes of echo data: state.remove(&token), then tx.send(now).
PingRecv(tok, dlen) ==
    /\ engine = "ping"
    /\ precv = "running"
    /\ tok \in pnet
    /\ IF EchoTryFromPanics(dlen)
       THEN /\ precv' = "panicked"
            /\ UNCHANGED <<pmap, prx, pgot, pwhen>>
       ELSE IF ~TokenTryFrom(dlen)
       THEN UNCHANGED <<pmap, prx, pgot, pwhen, precv>>
       ELSE LET tx == pmap[tok]
            IN  /\ pmap' = PingStateRemove(pmap, tok)
                /\ prx'  = IF tx # NoSender THEN [prx EXCEPT ![tx] = "value"] ELSE prx
                /\ pgot' = IF tx # NoSender THEN [pgot EXCEPT ![tx] = @ + 1] ELSE pgot
                /\ pwhen' = IF tx # NoSender THEN [pwhen EXCEPT ![tx] = clock] ELSE pwhen
                /\ UNCHANGED precv
    /\ UNCHANGED <<engine, cvars, lvars, down, out, kvars, tvars, clock, psent, prtt, ppc,
                   pcount, pseq, ptoken, pitems, pnet>>

\* Lengths of an inbound ICMP message that is not an echo reply: shorter than
\* the ICMP header, and a whole header.
TailLens == {HEADER_SIZE - 1, HEADER_SIZE}

\* IcmpV4Packet::try_from: Err("invalid slice") when the slice is shorter
\* than the header.
IcmpTryFromFails(tlen) == tlen < HEADER_SIZE

\* ping::sock4::recv, one iteration on an ICMP message of tlen bytes that is
\* not an echo reply: `IcmpV4Packet::try_from(tail)?` returns the error from
\* recv, which ends the task; a message that decodes is ignored.
PingRecvOther(tlen) ==
    /\ engine = "ping"
    /\ precv = "running"
    /\ precv' = IF IcmpTryFromFails(tlen) THEN "failed" ELSE precv
    /\ UNCHANGED <<engine, cvars, lvars, down, out, kvars, tvars, clock, psent, pwhen, prtt,
                   pmap, ppc, pcount, pseq, ptoken, prx, pitems, pgot, pnet>>

\* ping::sock4::recv: sock.recv_from failed, `result?` ends the task.
PingRecvError ==
    /\ engine = "ping"
    /\ precv = "running"
    /\ precv' = "sockerr"
    /\ UNCHANGED <<engine, cvars, lvars, down, out, kvars, tvars, clock, psent, pwhen, prtt,
                   pmap, ppc, pcount, pseq, ptoken, prx, pitems, pgot, pnet>>

\* Time passes between two steps of the Pinger.  Behaviours without this
\* step take place within one instant of the clock.
ClockTick ==
    /\ engine = "ping"
    /\ clock < MaxClock
    /\ clock' = clock + 1
    /\ UNCHANGED <<engine, cvars, lvars, down, out, kvars, tvars, psent, pwhen, prtt, pmap, ppc, pcount,
                   pseq, ptoken, prx, pitems, pgot, pnet, precv>>

\* impl Drop for Pinger: self.shutdown.send(()).  The streams borrow the
\* Pinger (`+ '_`), so it is dropped only when no probe of it is in flight.
PingerDrop ==
    /\ engine = "ping"
    /\ ~down
    /\ \A s \in Streams : ~PLive(s)
    /\ down' = TRUE
    /\ UNCHANGED <<engine, cvars, lvars, out, pvars, kvars, tvars>>

\* ping::sock4::recv: the `_ = shutdown.recv()` branch of select!: break.
PingShutdown ==
    /\ engine = "ping"
    /\ down
    /\ precv = "running"
    /\ precv' = "stopped"
    /\ UNCHANGED <<engine, cvars, lvars, down, out, kvars, tvars, clock, psent, pwhen, prtt,
                   pmap, ppc, pcount, pseq, ptoken, prx, pitems, pgot, pnet>>

PingInit ==
    /\ pmap   = [t \in Tokens |-> NoSender]
    /\ ppc    = [s \in Streams |-> IF pcount[s] = 0 THEN "done" ELSE "idle"]
    /\ pseq   = [s \in Streams |-> 0]
    /\ ptoken = [s \in Streams |-> "t1"]
    /\ prx    = [s \in Streams |-> "none"]
    /\ pitems = [s \in Streams |-> <<>>]
    /\ pgot   = [s \in Streams |-> 0]
    /\ pnet   = {}
    /\ precv  = "running"
    /\ clock  = 0
    /\ psent  = [s \in Streams |-> 0]
    /\ pwhen  = [s \in Streams |-> 0]
    /\ prtt   = [s \in Streams |-> 0]

PingNext ==
    \/ \E s \in Streams, tok \in Tokens : PingInsert(s, tok)
    \/ \E s \in Streams : PingWire(s)
    \/ \E s \in Streams : PingSendOk(s)
    \/ \E s \in Streams : PingSendFail(s)
    \/ \E s \in Streams : PingReply(s)
    \/ \E s \in Streams : PingTimeout(s)
    \/ \E s \in Streams : PingCancel(s)
    \/ \E tok \in Tokens, dlen \in DataLens : PingRecv(tok, dlen)
    \/ \E tlen \in TailLens : PingRecvOther(tlen)
    \/ PingRecvError
    \/ PingerDrop
    \/ PingShutdown

\* The Pinger with time passing.
PingTimedNext ==
    \/ PingNext
    \/ ClockTick

\* =================================================================== knock

\* knock::state::PORT_MIN / PORT_MAX
PORT_MIN == 33434
PORT_MAX == 65407

\* A u32 as its two 16-bit halves <<high, low>> (TLC's integers are narrower
\* than 2^32): the largest value, and x + 1 modulo 2^32.
U32Max == <<U16 - 1, U16 - 1>>
U32WrappingInc(x) ==
    IF x[2] = U16 - 1 THEN <<(x[1] + 1) % U16, 0>> ELSE <<x[1], x[2] + 1>>

\* Capacity of the bounded reply queue of a knock Lease, scaled down.
QueueCap == 1

\* A range that reaches one port past PORT_MAX.
PortsBeyond == {PORT_MIN, PORT_MAX + 1}

\* Uniform::new(PORT_MIN, PORT_MAX) samples the half-open range
\* [PORT_MIN, PORT_MAX); its two ends stand for it.
Ports == {PORT_MIN, PORT_MAX - 1}

\* The address RouteSocket::source picks for the target, the knocked socket
\* and another remote socket whose packets reach the same raw socket.
LocalIP == "L"
KTarget == <<"R", 80>>
KRemotes == {KTarget, <<"X", 80>>}

\* Random initial sequence numbers, the largest u32 among them.
Seqs == {<<0, 7>>, U32Max}

\* struct Key(SocketAddr, SocketAddr)
KnockKey(src, dst) == <<src, dst>>
KKeys == {KnockKey(<<LocalIP, p>>, d) : p \in Ports, d \in KRemotes}

\* What a peer answers to the SYN with sequence number q: SYN+ACK or RST.
SynAck(q) == [syn |-> TRUE, ack |-> TRUE, num |-> U32WrappingInc(q)]
Rst(q) == [syn |-> FALSE, ack |-> TRUE, num |-> <<0, 0>>]

\* State::sender: a clone of the Sender stored under Key(src, dst), if any.
KnockStateSender(map, src, dst) ==
    IF KnockKey(src, dst) \in KKeys THEN map[KnockKey(src, dst)] ELSE NoSender

\* A remove that leaves the entry in the map.
KnockStateKeep(map, src, dst) == map

\* State::remove: HashMap::remove(&Key(src, dst)) under the lock.
KnockStateRemove(map, src, dst) == [map EXCEPT ![KnockKey(src, dst)] = NoSender]

\* The Key a stream's Lease holds.
KLeaseKey(s) == KnockKey(<<LocalIP, ksrc[s]>>, KTarget)

\* The stream holds its Lease (the try_unfold state (src, rx)).
KLive(s) == kpc[s] \in {"ready", "sending", "waiting", "done"}

\* impl Drop for Lease: state.remove(self.src, self.dst); the Receiver and
\* what is queued in it go with the Lease.
KnockLeaseDrop(s) ==
    /\ kmap' = KnockStateRemove(kmap, <<LocalIP, ksrc[s]>>, KTarget)
    /\ kq'   = [kq EXCEPT ![s] = <<>>]

\* An entry test that takes every entry for vacant.
KnockVacantAlways(map, key) == TRUE

\* State::reserve: `if let Entry::Vacant(e) = map.entry(key)` under the lock.
KnockVacant(map, key) == map[key] = NoSender

\* A reserve that returns the Lease without inserting the Sender.
KnockReserveReturnOnly(map, key, s) == map

\* State::reserve, the entry found Vacant: e.insert(tx), return the Lease.
KnockReserveInsert(map, key, s) == [map EXCEPT ![key] = s]

\* State::reserve, one pass of the loop with the port drawn: under the lock,
\* insert if the entry is vacant, else yield_now().  knock() reserves once,
\* before the stream is built.
KnockReserve(s, port) ==
    /\ engine = "knock"
    /\ ~down
    /\ kpc[s] = "reserve"
    /\ LET key == KnockKey(<<LocalIP, port>>, KTarget)
       IN  IF KnockVacant(kmap, key)
           THEN /\ kmap' = KnockReserveInsert(kmap, key, s)
                /\ ksrc' = [ksrc EXCEPT ![s] = port]
                /\ kpc'  = [kpc EXCEPT ![s] = IF kcount[s] = 0 THEN "done" ELSE "ready"]
           ELSE /\ kpc'  = [kpc EXCEPT ![s] = "yield"]
                /\ UNCHANGED <<kmap, ksrc>>
    /\ UNCHANGED <<engine, cvars, lvars, down, out, pvars, tvars, kcount, kseq, kq, kitems, khit, knet, krecv>>

\* A Lease of a knock() call made elsewhere (a caller beside the Streams):
\* the value its Sender has in the map.
OtherLease == Cardinality(Streams) + 1

\* State::reserve of a knock() call made elsewhere, for the same target: it
\* inserts its Sender under a vacant Key and its caller keeps the stream.
KnockOtherReserve(port) ==
    /\ engine = "knock"
    /\ ~down
    /\ KnockVacant(kmap, KnockKey(<<LocalIP, port>>, KTarget))
    /\ kmap' = KnockReserveInsert(kmap, KnockKey(<<LocalIP, port>>, KTarget), OtherLease)
    /\ UNCHANGED <<engine, cvars, lvars, down, out, pvars, tvars, kpc, kcount, ksrc, kseq, kq, kitems, khit, knet, krecv>>

\* task::yield_now().await returned: the loop draws again.
KnockResume(s) ==
    /\ engine = "knock"
    /\ kpc[s] = "yield"
    /\ kpc' = [kpc EXCEPT ![s] = "reserve"]
    /\ UNCHANGED <<engine, cvars, lvars, down, out, pvars, tvars, kmap, kcount, ksrc, kseq, kq, kitems, khit, knet, krecv>>

\* The try_unfold closure up to the await of send: seq = random(),
\* Probe::new(*src, dst, seq).
KnockBegin(s, seq) ==
    /\ engine = "knock"
    /\ kpc[s] = "ready"
    /\ kseq' = [kseq EXCEPT ![s] = seq]
    /\ kpc'  = [kpc EXCEPT ![s] = "sending"]
    /\ UNCHANGED <<engine, cvars, lvars, down, out, pvars, tvars, kmap, kcount, ksrc, kq, kitems, khit, knet, krecv>>

\* Sock4::send returned Ok(Instant::now()): the SYN is on the wire.
KnockSendOk(s) ==
    /\ engine = "knock"
    /\ kpc[s] = "sending"
    /\ kpc'  = [kpc EXCEPT ![s] = "waiting"]
    /\ knet' = knet \cup {kseq[s]}
    /\ out' = [out EXCEPT ![s] = @ + 1]
    /\ UNCHANGED <<engine, cvars, lvars, down, pvars, tvars, kmap, kcount, ksrc, kseq, kq, kitems, khit, krecv>>

\* An item of the stream: take(count) ends it after count items; the state
\* (src, rx) stays in the stream until the stream is dropped.
KnockYield(s, item) ==
    /\ kitems' = [kitems EXCEPT ![s] = Append(@, item)]
    /\ khit'   = [khit EXCEPT ![s] = FALSE]
    /\ kpc'    = [kpc EXCEPT ![s] =
                    IF Len(kitems[s]) + 1 = kcount[s] THEN "done" ELSE "ready"]

\* self.send(probe).await? failed: the closure's future ends with Err and
\* drops the state it was given, try_unfold ends the stream.
KnockSendFail(s) ==
    /\ engine = "knock"
    /\ kpc[s] = "sending"
    /\ kitems' = [kitems EXCEPT ![s] = Append(@, "SendErr")]
    /\ kpc'    = [kpc EXCEPT ![s] = "failed"]
    /\ KnockLeaseDrop(s)
    /\ UNCHANGED <<engine, cvars, lvars, down, out, pvars, tvars, kcount, ksrc, kseq, khit, knet, krecv>>

\* The test of Knocker::probe on a received header, probe.seq() + 1 wrapping.
KnockMatch(head, seq) == head.syn /\ head.ack /\ head.num = U32WrappingInc(seq)

\* probe.seq() + 1 is evaluated (after head.syn && head.ack) and overflows u32.
KnockOverflows(head, seq) == head.syn /\ head.ack /\ seq = U32Max

\* Knocker::probe, timeout(expiry, rx.recv()) completed with a Reply: Some(rtt)
\* if it matches; otherwise retries reaches 0 and the probe is None.  (With
\* overflow checks off, seq + 1 wraps.)
KnockReply(s) ==
    /\ engine = "knock"
    /\ kpc[s] = "waiting"
    /\ kq[s] # <<>>
    /\ KnockYield(s, IF KnockMatch(Head(kq[s]), kseq[s]) THEN "Some" ELSE "None")
    /\ kq' = [kq EXCEPT ![s] = Tail(@)]
    /\ out' = [out EXCEPT ![s] = @ - 1]
    /\ UNCHANGED <<engine, cvars, lvars, down, pvars, tvars, kmap, kcount, ksrc, kseq, knet, krecv>>

\* Knocker::probe with overflow checks on: probe.seq() + 1 panics for the
\* largest seq; the unwinding drops the stream's state and its Lease.
KnockReplyPanic(s) ==
    /\ engine = "knock"
    /\ kpc[s] = "waiting"
    /\ kq[s] # <<>>
    /\ KnockOverflows(Head(kq[s]), kseq[s])
    /\ kpc' = [kpc EXCEPT ![s] = "panicked"]
    /\ KnockLeaseDrop(s)
    /\ UNCHANGED <<engine, cvars, lvars, down, out, pvars, tvars, kcount, ksrc, kseq, kitems, khit, knet, krecv>>

\* Knocker::probe, the timeout elapsed with nothing queued: None.
KnockTimeout(s) ==
    /\ engine = "knock"
    /\ kpc[s] = "waiting"
    /\ kq[s] = <<>>
    /\ KnockYield(s, "None")
    /\ out' = [out EXCEPT ![s] = @ - 1]
    /\ UNCHANGED <<engine, cvars, lvars, down, pvars, tvars, kmap, kcount, ksrc, kseq, kq, knet, krecv>>

\* The caller drops the knock() future at its yield, or the stream between
\* items, during a probe or after its last item.
KnockCancel(s) ==
    /\ engine = "knock"
    /\ kpc[s] \in {"yield", "ready", "sending", "waiting", "done"}
    /\ kpc' = [kpc EXCEPT ![s] = "dropped"]
    /\ IF KLive(s) THEN KnockLeaseDrop(s) ELSE UNCHANGED <<kmap, kq>>
    /\ out' = [out EXCEPT ![s] = 0]
    /\ UNCHANGED <<engine, cvars, lvars, down, pvars, tvars, kcount, ksrc, kseq, kitems, khit, knet, krecv>>

\* The TCP packets that may arrive on the raw socket: the peer's answers to
\* the SYNs sent (also late, also to a port since released), and the same
\* from another remote socket.
KPackets ==
    {[src |-> r, dst |-> <<LocalIP, p>>, head |-> h] :
        r \in KRemotes, p \in Ports,
        h \in {SynAck(q) : q \in knet} \cup {Rst(q) : q \in knet}}

\* The stream whose probe in flight the packet answers.
KnockAnswers(pkt, s) ==
    /\ kpc[s] = "waiting"
    /\ KnockKey(pkt.dst, pkt.src) = KLeaseKey(s)
    /\ KnockMatch(pkt.head, kseq[s])

\* The Key with the packet's addresses in the order they arrived in.
KnockRecvKeySrcFirst(pkt) == KnockKey(pkt.src, pkt.dst)

\* sock4::recv: the Key looked up for a TCP packet, state.sender(dst, src):
\* its destination (the local socket) first.
KnockRecvKey(pkt) == KnockKey(pkt.dst, pkt.src)

\* sock4::recv, one iteration on a TCP packet: state.sender(dst, src), then
\* tx.send(..).await, which waits while the queue is full.
KnockRecv(pkt) ==
    /\ engine = "knock"
    /\ krecv.st = "running"
    /\ UNCHANGED <<engine, cvars, lvars, down, out, pvars, tvars, kmap, kpc, kcount, ksrc, kseq, kitems, knet>>
    /\ khit' = [s \in Streams |-> khit[s] \/ KnockAnswers(pkt, s)]
    /\ LET key == KnockRecvKey(pkt)
           tx  == KnockStateSender(kmap, key[1], key[2])
       IN  IF tx = NoSender
           THEN UNCHANGED <<kq, krecv>>
           ELSE IF Len(kq[tx]) < QueueCap
           THEN kq' = [kq EXCEPT ![tx] = Append(@, pkt.head)] /\ UNCHANGED krecv
           ELSE /\ krecv' = [st |-> "sending", to |-> tx, head |-> pkt.head]
                /\ UNCHANGED kq

\* The pending tx.send(..).await of the receive loop completes: the queue has
\* room again, or the Receiver is gone and send returns an error.
KnockRecvResume ==
    /\ engine = "knock"
    /\ krecv.st = "sending"
    /\ IF KLive(krecv.to)
       THEN /\ Len(kq[krecv.to]) < QueueCap
            /\ kq' = [kq EXCEPT ![krecv.to] = Append(@, krecv.head)]
       ELSE UNCHANGED kq
    /\ krecv' = [st |-> "running"]
    /\ UNCHANGED <<engine, cvars, lvars, down, out, pvars, tvars, kmap, kpc, kcount, ksrc, kseq, kitems, khit, knet>>

\* The calls of the Knocker that no longer borrow it.
KnockGone(s) == kpc[s] \in {"reserve", "failed", "panicked", "dropped"}

\* impl Drop for Knocker: self.shutdown.send(()).  The knock() futures and
\* their streams borrow the Knocker, so they are gone before it.
KnockerDrop ==
    /\ engine = "knock"
    /\ ~down
    /\ \A s \in Streams : KnockGone(s)
    /\ down' = TRUE
    /\ UNCHANGED <<engine, cvars, lvars, out, pvars, kvars, tvars>>

\* knock::sock4::recv: the `_ = shutdown.recv()` branch of select!: break.
\* The loop is at select! only between two packets, not inside tx.send.
KnockShutdown ==
    /\ engine = "knock"
    /\ down
    /\ krecv.st = "running"
    /\ krecv' = [st |-> "stopped"]
    /\ UNCHANGED <<engine, cvars, lvars, down, out, pvars, tvars, kmap, kpc, kcount, ksrc, kseq, kq, kitems,
                   khit, knet>>

KnockInit ==
    /\ kmap   = [k \in KKeys |-> NoSender]
    /\ kpc    = [s \in Streams |-> "reserve"]
    /\ ksrc   = [s \in Streams |-> 0]
    /\ kseq   = [s \in Streams |-> <<0, 0>>]
    /\ kq     = [s \in Streams |-> <<>>]
    /\ kitems = [s \in Streams |-> <<>>]
    /\ khit   = [s \in Streams |-> FALSE]
    /\ knet   = {}
    /\ krecv  = [st |-> "running"]

KnockNext ==
    \/ \E s \in Streams, port \in Ports : KnockReserve(s, port)
    \/ \E s \in Streams : KnockResume(s)
    \/ \E s \in Streams, seq \in Seqs : KnockBegin(s, seq)
    \/ \E s \in Streams : KnockSendOk(s)
    \/ \E s \in Streams : KnockSendFail(s)
    \/ \E s \in Streams : KnockReply(s)
    \/ \E s \in Streams : KnockReplyPanic(s)
    \/ \E s \in Streams : KnockTimeout(s)
    \/ \E s \in Streams : KnockCancel(s)
    \/ \E pkt \in KPackets : KnockRecv(pkt)
    \/ KnockRecvResume
    \/ KnockerDrop
    \/ KnockShutdown

\* =================================================================== trace

\* The number of u8 values (ttl: u8).
U8 == 256

\* Most rows the concurrent route calls ask for in total (their `limit`s
\* add up to at most this), and a `limit` that outlasts the u8 ttl counter.
MaxLimit == 2
SweepLimit == 256

\* The `probes` of a call: one attempt per ttl, or several.
ProbeCounts == {1, 2}

\* The longest path to a target: as long as the longest short sweep.
PathLen == MaxLimit

\* enum Protocol { ICMP, TCP(u16), UDP(u16) }
TProtos == {"ICMP", "TCP", "UDP"}
\* The address families of a target: IpAddr::V4 / IpAddr::V6.
Families == {4, 6}
\* IP addresses: the local address Tracer::source picks, the target, the
\* router at a hop, a host that is none of them, and no address.
TLocalIP == <<"local", 0>>
TargetIP == <<"target", 0>>
RouterIP(hop) == <<"router", hop>>
OtherIP == <<"other", 0>>
NoIP == <<"none", 0>>
\* No Echo received (yet).
NoEcho == [ip |-> NoIP, last |-> FALSE]

\* The Trace inputs of the two concurrent calls: short sweeps side by side
\* (same or different protocol), or one long sweep beside an empty one.
TraceInputs ==
    {[r \in Streams |-> [proto |-> IF r = 1 THEN "TCP" ELSE q, probes |-> p, limit |-> l[r]]] :
        q \in TProtos, p \in ProbeCounts,
        l \in {m \in [Streams -> 0..MaxLimit] : m[1] + m[2] <= MaxLimit}}
    \cup {[r \in Streams |-> [proto |-> "UDP", probes |-> 1,
                              limit |-> IF r = 1 THEN SweepLimit ELSE 0]]}
\* The paths the calls are run on: the long sweep on one that drops every
\* probe, the short ones also on paths of 1..PathLen hops.
TraceDists(in) == IF in[1].limit > MaxLimit THEN {0} ELSE 0..PathLen
\* The family of the target: IPv6 targets are traced with one probe per ttl.
TraceFams(in) == IF in[1].probes = 1 /\ in[1].limit <= MaxLimit THEN Families ELSE {4}
NoTraces == [r \in Streams |-> [proto |-> "TCP", probes |-> 1, limit |-> 0]]

\* The table State::reserve / State::release pick for a protocol; the ids
\* reserved for ICMP probes are kept the same way.
TraceTable(proto) ==
    CASE proto = "TCP" -> ttcp
      [] proto = "UDP" -> tudp
      [] OTHER         -> ticmp

\* The tables after the table of `proto` became `tab`.
TraceTableSet(proto, tab) ==
    /\ ttcp'  = IF proto = "TCP" THEN tab ELSE ttcp
    /\ tudp'  = IF proto = "UDP" THEN tab ELSE tudp
    /\ ticmp' = IF proto = "ICMP" THEN tab ELSE ticmp

\* The call holds its Lease.
TLive(r) == tpc[r] \in {"poll", "send", "sent", "waiting", "row"}

\* A Lease whose drop leaves its port in the table.
TraceLeaseKeep(r) == UNCHANGED <<ttcp, tudp, ticmp>>

\* impl Drop for Lease: state.release(self.proto, &self.addr).
TraceLeaseDrop(r) ==
    TraceTableSet(tin[r].proto, TraceTable(tin[r].proto) \ {tsrc[r]})

\* State::reserve, one pass of the loop with the port drawn: under the lock
\* of the protocol's table, insert if the entry is vacant, else yield_now().
TraceReserve(r, port) ==
    /\ engine = "trace"
    /\ ~down
    /\ tpc[r] = "reserve"
    /\ IF port \notin TraceTable(tin[r].proto)
       THEN /\ TraceTableSet(tin[r].proto, TraceTable(tin[r].proto) \cup {port})
            /\ tsrc' = [tsrc EXCEPT ![r] = port]
            /\ tpc'  = [tpc EXCEPT ![r] = "poll"]
       ELSE /\ tpc'  = [tpc EXCEPT ![r] = "yield"]
            /\ UNCHANGED <<ttcp, tudp, ticmp, tsrc>>
    /\ UNCHANGED <<engine, cvars, lvars, down, out, pvars, kvars, trecv, tin, tdist, tfam, tttl, tdone, trow, trows, trx, tnet>>

\* State::reserve of a route() call made elsewhere (a caller beside the
\* Streams): it takes a vacant port of the protocol's table and keeps it.
TraceOtherReserve(proto, port) ==
    /\ engine = "trace"
    /\ ~down
    /\ port \notin TraceTable(proto)
    /\ TraceTableSet(proto, TraceTable(proto) \cup {port})
    /\ UNCHANGED <<engine, cvars, lvars, down, out, pvars, kvars, trecv, tpc, tin, tdist, tfam, tsrc, tttl, tdone, trow, trows, trx, tnet>>

\* task::yield_now().await returned: the loop draws again.
TraceResume(r) ==
    /\ engine = "trace"
    /\ tpc[r] = "yield"
    /\ tpc' = [tpc EXCEPT ![r] = "reserve"]
    /\ UNCHANGED <<engine, cvars, lvars, down, out, pvars, kvars, trecv, ttcp, tudp, ticmp, tin, tdist, tfam, tsrc, tttl, tdone,
                   trow, trows, trx, tnet>>

\* route: try_collect polls take(limit) for the first time: with limit = 0
\* it ends at once and route returns Ok(vec![]); otherwise the first row
\* starts with ttl 1.
TracePoll(r) ==
    /\ engine = "trace"
    /\ tpc[r] = "poll"
    /\ IF tin[r].limit = 0
       THEN tpc' = [tpc EXCEPT ![r] = "ok"] /\ TraceLeaseDrop(r)
       ELSE tpc' = [tpc EXCEPT ![r] = "send"] /\ UNCHANGED <<ttcp, tudp, ticmp>>
    /\ UNCHANGED <<engine, cvars, lvars, down, out, pvars, kvars, trecv, tin, tdist, tfam, tsrc, tttl, tdone, trow, trows, trx, tnet>>

\* enum Key { ICMP(IpAddr, IpAddr, u16), TCP(SocketAddr, IpAddr),
\* UDP(SocketAddr, IpAddr) }
KeyICMP(src, dst, id) == <<"ICMP", src, dst, id>>
KeyTCP(sock, ip) == <<"TCP", sock, ip>>
KeyUDP(sock, ip) == <<"UDP", sock, ip>>

\* The header fields of the probe of a call that identify it: protocol,
\* source address, source port (TCP, UDP) or id (ICMP), destination address.
TraceHeader(r) ==
    [proto |-> tin[r].proto, src |-> TLocalIP, num |-> tsrc[r], dst |-> TargetIP]
NoHeader == [proto |-> "none", src |-> NoIP, num |-> 0, dst |-> NoIP]

\* Probe::key of a probe with these header fields.
ProbeKey(h) ==
    CASE h.proto = "ICMP" -> KeyICMP(h.src, h.dst, h.num)
      [] h.proto = "TCP"  -> KeyTCP(<<h.src, h.num>>, h.dst)
      [] h.proto = "UDP"  -> KeyUDP(<<h.src, h.num>>, h.dst)
      [] OTHER            -> <<"none">>

\* The sub-codes of DestinationUnreachable: icmp4::Unreachable has Net,
\* Host, Protocol, Port and Other, icmp6::Unreachable Address, Port, Other.
UnreachCodes(fam) ==
    IF fam = 4 THEN {"Net", "Host", "Protocol", "Port", "Other"}
    ELSE {"Address", "Port", "Other"}

\* What comes back for a probe of call r sent with its current ttl towards
\* a target `tdist` hops away.  Short of the target the router at that hop
\* answers TimeExceeded (HopLimitExceeded on IPv6) citing the probe.  The
\* target answers a TCP probe with a TCP packet, an ICMP probe with an echo
\* reply, a UDP probe with DestinationUnreachable citing the probe.  Nobody
\* answers on a path that drops the probes (tdist = 0) or a probe sent with
\* ttl 0.
TraceAnswer(r) ==
    LET ttl == tttl[r]
        h   == TraceHeader(r)
    IN  IF ttl = 0 \/ tdist = 0 THEN {}
        ELSE IF ttl < tdist
        THEN {[kind |-> "TimeExceeded", code |-> "", src |-> RouterIP(ttl), dst |-> TLocalIP,
               num |-> 0, cite |-> h]}
        ELSE CASE h.proto = "TCP" ->
                    {[kind |-> "TCP", code |-> "", src |-> TargetIP, dst |-> TLocalIP,
                      num |-> h.num, cite |-> NoHeader]}
               [] h.proto = "ICMP" ->
                    {[kind |-> "EchoReply", code |-> "", src |-> TargetIP, dst |-> TLocalIP,
                      num |-> h.num, cite |-> NoHeader]}
               [] OTHER ->
                    {[kind |-> "Unreachable", code |-> c, src |-> TargetIP, dst |-> TLocalIP,
                      num |-> 0, cite |-> h] : c \in UnreachCodes(tfam)}

\* TCP packets that reach the raw TCP socket from a host no probe was sent
\* to, addressed to one of the ports.
TraceStrays ==
    {[kind |-> "TCP", code |-> "", src |-> OtherIP, dst |-> TLocalIP, num |-> p,
      cite |-> NoHeader] : p \in Ports}

\* Tracer::send returned Ok(Instant::now()): the probe is on the wire, its
\* answer may come at any time from now on.
TraceSendOk(r) ==
    /\ engine = "trace"
    /\ tpc[r] = "send"
    /\ tpc'  = [tpc EXCEPT ![r] = "sent"]
    /\ tnet' = tnet \cup TraceAnswer(r)
    /\ out' = [out EXCEPT ![r] = @ + 1]
    /\ UNCHANGED <<engine, cvars, lvars, down, pvars, kvars, trecv, ttcp, tudp, ticmp, tin, tdist, tfam, tsrc, tttl, tdone,
                   trow, trows, trx>>

\* The result of the take_while predicate of route as a variant computes it:
\* from the row just seen.
RouteKeepsUntil(last, now) == ~now

\* The result of the take_while predicate of route: `last`, the value `done`
\* had before this row, decides; `now` is what the row sets `done` to.
RouteKeeps(last, now) == ~last

\* self.send(probe, ttl).await? failed: the row and the trace stream yield
\* Err.  take_while lets the Err through unless `done` was set, in which
\* case the stream ends and route returns the rows taken.
TraceSendFail(r) ==
    /\ engine = "trace"
    /\ tpc[r] = "send"
    /\ tpc' = [tpc EXCEPT ![r] = IF RouteKeeps(tdone[r], tdone[r]) THEN "err" ELSE "ok"]
    /\ TraceLeaseDrop(r)
    /\ UNCHANGED <<engine, cvars, lvars, down, out, pvars, kvars, trecv, tin, tdist, tfam, tsrc, tttl, tdone, trow, trows, trx, tnet>>

\* Tracer::recv is polled by timeout(): state.receiver(&probe.key())
\* subscribes to the broadcast Sender of the Key.
TraceSubscribe(r) ==
    /\ engine = "trace"
    /\ tpc[r] = "sent"
    /\ tpc' = [tpc EXCEPT ![r] = "waiting"]
    /\ trx' = [trx EXCEPT ![r] = NoEcho]
    /\ UNCHANGED <<engine, cvars, lvars, down, out, pvars, kvars, trecv, ttcp, tudp, ticmp, tin, tdist, tfam, tsrc, tttl, tdone,
                   trow, trows, tnet>>

\* The Node of a finished probe joins its row; take(count) ends the row
\* after `probes` Nodes.
TraceNode(r, node) ==
    /\ trow' = [trow EXCEPT ![r] = Append(@, node)]
    /\ tpc'  = [tpc EXCEPT ![r] =
                  IF Len(trow[r]) + 1 = tin[r].probes THEN "row" ELSE "send"]

\* Tracer::probe, timeout(expiry, recv) completed with an Echo:
\* probe.increment(), Node::Node(ttl, addr, rtt, last).
TraceReply(r) ==
    /\ engine = "trace"
    /\ tpc[r] = "waiting"
    /\ trx[r] # NoEcho
    /\ TraceNode(r, [ttl |-> tttl[r], ip |-> trx[r].ip, last |-> trx[r].last])
    /\ out' = [out EXCEPT ![r] = @ - 1]
    /\ UNCHANGED <<engine, cvars, lvars, down, pvars, kvars, trecv, ttcp, tudp, ticmp, tin, tdist, tfam, tsrc, tttl, tdone,
                   trows, trx, tnet>>

\* Tracer::probe, the timeout elapsed: probe.increment(), Node::None(ttl).
TraceTimeout(r) ==
    /\ engine = "trace"
    /\ tpc[r] = "waiting"
    /\ trx[r] = NoEcho
    /\ TraceNode(r, [ttl |-> tttl[r], ip |-> NoIP, last |-> FALSE])
    /\ out' = [out EXCEPT ![r] = @ - 1]
    /\ UNCHANGED <<engine, cvars, lvars, down, pvars, kvars, trecv, ttcp, tudp, ticmp, tin, tdist, tfam, tsrc, tttl, tdone,
                   trows, trx, tnet>>

\* The test of route's take_while closure on a row.
RouteBoundary(row) ==
    \E i \in 1..Len(row) :
        row[i].ip # NoIP /\ (row[i].last \/ row[i].ip = TargetIP)

\* A row is complete.  Tracer::trace yields it with the next state
\* (probe, ttl + 1), here with the u8 addition wrapping; route's take_while
\* sets `done` from the row and keeps the row unless `done` was set before;
\* take(limit) ends the sweep after `limit` rows; try_collect then returns
\* and route drops its Lease.
TraceRow(r) ==
    /\ engine = "trace"
    /\ tpc[r] = "row"
    /\ LET now  == RouteBoundary(trow[r])
           keep == RouteKeeps(tdone[r], now)
           rows == IF keep THEN Append(trows[r], trow[r]) ELSE trows[r]
       IN  /\ tttl'  = [tttl EXCEPT ![r] = (@ + 1) % U8]
           /\ tdone' = [tdone EXCEPT ![r] = now]
           /\ trows' = [trows EXCEPT ![r] = rows]
           /\ trow'  = [trow EXCEPT ![r] = <<>>]
           /\ IF ~keep \/ Len(rows) = tin[r].limit
              THEN tpc' = [tpc EXCEPT ![r] = "ok"] /\ TraceLeaseDrop(r)
              ELSE tpc' = [tpc EXCEPT ![r] = "send"] /\ UNCHANGED <<ttcp, tudp, ticmp>>
    /\ UNCHANGED <<engine, cvars, lvars, down, out, pvars, kvars, trecv, tin, tdist, tfam, tsrc, trx, tnet>>

\* A row with ttl 255 is complete and overflow checks are on: ttl + 1
\* panics before the row is yielded; the unwinding drops the Lease.
TraceRowPanic(r) ==
    /\ engine = "trace"
    /\ tpc[r] = "row"
    /\ tttl[r] = U8 - 1
    /\ tpc' = [tpc EXCEPT ![r] = "panicked"]
    /\ TraceLeaseDrop(r)
    /\ UNCHANGED <<engine, cvars, lvars, down, out, pvars, kvars, trecv, tin, tdist, tfam, tsrc, tttl, tdone, trow, trows, trx, tnet>>

\* The caller drops the route() future at one of its awaits.
TraceCancel(r) ==
    /\ engine = "trace"
    /\ tpc[r] \in {"yield", "send", "waiting"}
    /\ tpc' = [tpc EXCEPT ![r] = "dropped"]
    /\ IF TLive(r) THEN TraceLeaseDrop(r) ELSE UNCHANGED <<ttcp, tudp, ticmp>>
    /\ out' = [out EXCEPT ![r] = 0]
    /\ UNCHANGED <<engine, cvars, lvars, down, pvars, kvars, trecv, tin, tdist, tfam, tsrc, tttl, tdone, trow, trows, trx, tnet>>

\* State::sender(&key): the broadcast Sender registered under the Key of a
\* live Lease; the calls subscribed to it.
TraceStateSender(key) ==
    {r \in Streams : TLive(r) /\ ProbeKey(TraceHeader(r)) = key}

\* The packet an Unreachable of the given sub-code cites: every arm of the
\* match yields the cited packet.
UnreachableCited(code, cite) ==
    CASE code = "Net"      -> cite
      [] code = "Host"     -> cite
      [] code = "Protocol" -> cite
      [] code = "Port"     -> cite
      [] code = "Address"  -> cite
      [] OTHER             -> cite

\* The terminal flag of an Echo as a variant sets it: never.
EchoLastNever(kind) == FALSE

\* The terminal flag of an Echo as a variant sets it: always.
EchoLastAlways(kind) == TRUE

\* icmp::recv4: the terminal flag of the Echo published for an ICMPv4
\* message: TimeExceeded false, Unreachable true, EchoReply true.
Recv4Last(kind) ==
    CASE kind = "TimeExceeded" -> FALSE
      [] kind = "Unreachable"  -> TRUE
      [] OTHER                 -> TRUE

\* icmp::recv6: the terminal flag of the Echo published for an ICMPv6
\* message: HopLimitExceeded false, Unreachable false, EchoReply true.
Recv6Last(kind) ==
    CASE kind = "TimeExceeded" -> FALSE
      [] kind = "Unreachable"  -> FALSE
      [] OTHER                 -> TRUE

\* icmp::recv4 / recv6 on an EchoReply: Key::ICMP(dst, src, echo.id), the
\* destination of the arriving packet first.
EchoReplyKey(pkt) == KeyICMP(pkt.dst, pkt.src, pkt.num)

\* The Key of a TCP packet with the remote socket and the local address.
SockRecvKeyRemote(pkt) == KeyTCP(<<pkt.src, pkt.num>>, pkt.dst)

\* trace::sock4::recv / sock6::recv: Key::TCP(dst, src), dst the local
\* socket (destination address and destination port), src the remote IP.
SockRecvKey(pkt) == KeyTCP(<<pkt.dst, pkt.num>>, pkt.src)

\* The Key a receive loop looks a packet up under.
TraceRecvKey(pkt) ==
    CASE pkt.kind = "TCP"         -> SockRecvKey(pkt)
      [] pkt.kind = "EchoReply"   -> EchoReplyKey(pkt)
      [] pkt.kind = "Unreachable" -> ProbeKey(UnreachableCited(pkt.code, pkt.cite))
      [] OTHER                    -> ProbeKey(pkt.cite)

\* The terminal flag a receive loop publishes for a packet.
TraceRecvLast(pkt) ==
    IF pkt.kind = "TCP" THEN TRUE
    ELSE IF tfam = 4 THEN Recv4Last(pkt.kind) ELSE Recv6Last(pkt.kind)

\* The tasks Tracer::new spawns: icmp::exec spawns recv4 and recv6, Sock4::new
\* and Sock6::new one recv each.
TraceTasks == {"icmp4", "icmp6", "sock4", "sock6"}

\* The task that reads the packet from its socket.
TraceTaskOf(pkt) ==
    IF pkt.kind = "TCP"
    THEN (IF tfam = 4 THEN "sock4" ELSE "sock6")
    ELSE (IF tfam = 4 THEN "icmp4" ELSE "icmp6")

\* The loops that select! on shutdown.recv(): trace::sock6::recv does;
\* trace::sock4::recv, icmp::recv4 and icmp::recv6 are plain loops around
\* sock.recv_from(..).await and are given no shutdown Receiver.
TraceAwaitsShutdown(task) == task = "sock6"

\* The echo reply to a probe of ICMPv4::encode is a bare ICMP header, it
\* carries no echo data: icmp::recv4 decodes it with IcmpV4Packet::try_from,
\* whose Echo::try_from slices a token out of it and panics.  icmp::recv6
\* decodes with icmp6, whose Echo has no token.
Recv4EchoPanics(pkt) ==
    /\ pkt.kind = "EchoReply"
    /\ tfam = 4
    /\ EchoTryFromPanics(0)

\* A receive loop (trace::sock4::recv / sock6::recv for a TCP packet,
\* trace::icmp::recv4 / recv6 for an ICMP message), one iteration: the Key
\* of the packet, state.sender(&key), tx.send(Echo(from, now, last)).  A
\* subscriber reads the first Echo published after it subscribed.  A panic
\* while decoding ends the task.
TraceRecv(pkt) ==
    /\ engine = "trace"
    /\ trecv[TraceTaskOf(pkt)] = "running"
    /\ IF Recv4EchoPanics(pkt)
       THEN /\ trecv' = [trecv EXCEPT ![TraceTaskOf(pkt)] = "panicked"]
            /\ UNCHANGED trx
       ELSE /\ trx' = [r \in Streams |->
                         IF /\ r \in TraceStateSender(TraceRecvKey(pkt))
                            /\ tpc[r] = "waiting"
                            /\ trx[r] = NoEcho
                         THEN [ip |-> pkt.src, last |-> TraceRecvLast(pkt)] ELSE trx[r]]
            /\ UNCHANGED trecv
    /\ UNCHANGED <<engine, cvars, lvars, down, out, pvars, kvars, ttcp, tudp, ticmp, tpc, tin, tdist, tfam, tsrc, tttl,
                   tdone, trow, trows, tnet>>

\* The calls of the Tracer that no longer borrow it.
TraceGone(r) == tpc[r] \in {"reserve", "ok", "err", "panicked", "dropped"}

\* impl Drop for Tracer: self.shutdown.send(()).  route() borrows the Tracer,
\* so every call has returned or is dropped before it.
TracerDrop ==
    /\ engine = "trace"
    /\ ~down
    /\ \A r \in Streams : TraceGone(r)
    /\ down' = TRUE
    /\ UNCHANGED <<engine, cvars, lvars, out, pvars, kvars, tvars>>

\* trace::sock6::recv: the `_ = shutdown.recv()` branch of select!: break.
TraceShutdown(task) ==
    /\ engine = "trace"
    /\ down
    /\ TraceAwaitsShutdown(task)
    /\ trecv[task] = "running"
    /\ trecv' = [trecv EXCEPT ![task] = "stopped"]
    /\ UNCHANGED <<engine, cvars, lvars, down, out, pvars, kvars, ttcp, tudp, ticmp, tpc, tin, tdist, tfam, tsrc,
                   tttl, tdone, trow, trows, trx, tnet>>

TraceInit ==
    /\ ttcp  = {}
    /\ tudp  = {}
    /\ ticmp = {}
    /\ tpc   = [r \in Streams |-> "reserve"]
    /\ tsrc  = [r \in Streams |-> 0]
    /\ tttl  = [r \in Streams |-> 1]
    /\ tdone = [r \in Streams |-> FALSE]
    /\ trow  = [r \in Streams |-> <<>>]
    /\ trows = [r \in Streams |-> <<>>]
    /\ trx   = [r \in Streams |-> NoEcho]
    /\ tnet  = {}
    /\ trecv = [task \in TraceTasks |-> "running"]

TraceNext ==
    \/ \E r \in Streams, port \in Ports : TraceReserve(r, port)
    \/ \E r \in Streams : TraceResume(r)
    \/ \E r \in Streams : TracePoll(r)
    \/ \E r \in Streams : TraceSendOk(r)
    \/ \E r \in Streams : TraceSendFail(r)
    \/ \E r \in Streams : TraceSubscribe(r)
    \/ \E r \in Streams : TraceReply(r)
    \/ \E r \in Streams : TraceTimeout(r)
    \/ \E r \in Streams : TraceRow(r)
    \/ \E r \in Streams : TraceRowPanic(r)
    \/ \E r \in Streams : TraceCancel(r)
    \/ \E pkt \in tnet \cup TraceStrays : TraceRecv(pkt)
    \/ TracerDrop
    \/ \E task \in TraceTasks : TraceShutdown(task)

\* ====================================================== probes and packets

\* IP addresses of either family (IpAddr::V4 / IpAddr::V6): <<family, host>>;
\* a SocketAddr is <<address, port>>.
Hosts == {"a", "b"}
Addrs == Families \X Hosts
Fam(addr) == addr[1]

\* Result<T>: Ok(value) or Err(message); an Err carries no value.
Ok(v) == [ok |-> TRUE, err |-> "", val |-> v]
Err(e) == [ok |-> FALSE, err |-> e, val |-> <<>>]
NoResult == [ok |-> FALSE, err |-> "", val |-> <<>>]

\* invalid(): anyhow!("mixed IPv4 and IPv6 addresses").
Invalid == "mixed IPv4 and IPv6 addresses"

\* knock Probe::new(src, dst, seq): Probe::V4 for two V4 socket addresses,
\* Probe::V6 for two V6 ones, Err(invalid()) otherwise.
KnockProbeNew(src, dst, seq) ==
    CASE Fam(src[1]) = 4 /\ Fam(dst[1]) = 4 -> Ok([v |-> 4, src |-> src, dst |-> dst, seq |-> seq])
      [] Fam(src[1]) = 6 /\ Fam(dst[1]) = 6 -> Ok([v |-> 6, src |-> src, dst |-> dst, seq |-> seq])
      [] OTHER                              -> Err(Invalid)

\* A trace Probe: protocol, source address, id (ICMP) or source port (TCP,
\* UDP), destination address, destination port (0 for ICMP) and seq; seq is
\* <<high half, low half>>, a u32 for TCP, a u16 (high half 0) for ICMP,
\* unused for UDP.
TraceProbe(proto, src, num, dst, dport, seq) ==
    [proto |-> proto, src |-> src, num |-> num, dst |-> dst, dport |-> dport, seq |-> seq]

\* TryFrom<(SocketAddr, IpAddr, u16)> for ICMP: ICMPv4::new / ICMPv6::new
\* (src.ip(), dst, id, 0) for addresses of one family.
IcmpTryFrom(src, dst, id) ==
    CASE Fam(src[1]) = 4 /\ Fam(dst) = 4 -> Ok(TraceProbe("ICMP", src[1], id, dst, 0, <<0, 0>>))
      [] Fam(src[1]) = 6 /\ Fam(dst) = 6 -> Ok(TraceProbe("ICMP", src[1], id, dst, 0, <<0, 0>>))
      [] OTHER                           -> Err(Invalid)

\* TryFrom<(SocketAddr, IpAddr, u16)> for TCP: TCPv4::new / TCPv6::new
\* (src, sa(dst, port)), which start at seq 1.
TcpTryFrom(src, dst, port) ==
    CASE Fam(src[1]) = 4 /\ Fam(dst) = 4 -> Ok(TraceProbe("TCP", src[1], src[2], dst, port, <<0, 1>>))
      [] Fam(src[1]) = 6 /\ Fam(dst) = 6 -> Ok(TraceProbe("TCP", src[1], src[2], dst, port, <<0, 1>>))
      [] OTHER                           -> Err(Invalid)

\* A conversion that takes any pair of addresses.
UdpTryFromAnyFamily(src, dst, port) ==
    Ok(TraceProbe("UDP", src[1], src[2], dst, port, <<0, 0>>))

\* TryFrom<(SocketAddr, IpAddr, u16)> for UDP: UDPv4::new / UDPv6::new
\* (src, sa(dst, port)).
UdpTryFrom(src, dst, port) ==
    CASE Fam(src[1]) = 4 /\ Fam(dst) = 4 -> Ok(TraceProbe("UDP", src[1], src[2], dst, port, <<0, 0>>))
      [] Fam(src[1]) = 6 /\ Fam(dst) = 6 -> Ok(TraceProbe("UDP", src[1], src[2], dst, port, <<0, 0>>))
      [] OTHER                           -> Err(Invalid)

\* Probes::new(proto, src, dst, value) followed by Probes::probe(): the
\* source socket is (src, 0) for ICMP and (src, value) for TCP and UDP; the
\* probe is converted from (source socket, dst, id or destination port).
ProbesProbe(proto, port, src, dst, value) ==
    CASE proto = "ICMP" -> IcmpTryFrom(<<src, 0>>, dst, value)
      [] proto = "TCP"  -> TcpTryFrom(<<src, value>>, dst, port)
      [] OTHER          -> UdpTryFrom(<<src, value>>, dst, port)

\* The ends of the u16 range.
Nums == {0, U16 - 1}

\* The arguments of the constructors: who is constructed, source and
\* destination address, the id or source port.
NewInputs ==
    {[op |-> "new", who |-> w, src |-> s, dst |-> d, num |-> n] :
        w \in {"knock"} \cup TProtos, s \in Addrs, d \in Addrs, n \in Nums}

\* A constructor is called and returns.
CallNew ==
    /\ engine = "codec"
    /\ cin.op = "new"
    /\ cpc = "call"
    /\ cout' = IF cin.who = "knock"
               THEN KnockProbeNew(<<cin.src, cin.num>>, <<cin.dst, PORT_MIN>>, <<0, cin.num>>)
               ELSE ProbesProbe(cin.who, PORT_MIN, cin.src, cin.dst, cin.num)
    /\ cpc' = "done"
    /\ UNCHANGED <<engine, cin, down, out, lvars, pvars, kvars, tvars>>

\* IpTrafficClass::Icmp, IPv6Icmp, Tcp and Udp as u8.
ICMP4 == 1
ICMP6 == 58
TCP == 6
UDP == 17

\* icmp4::ECHO_REPLY, UNREACHABLE, ECHO_REQUEST, TIME_EXCEEDED.
V4_ECHO_REPLY == 0
V4_UNREACHABLE == 3
V4_ECHO_REQUEST == 8
V4_TIME_EXCEEDED == 11

\* icmp6::UNREACHABLE, TIME_EXCEEDED, ECHO_REQUEST, ECHO_REPLY.
V6_UNREACHABLE == 1
V6_TIME_EXCEEDED == 3
V6_ECHO_REQUEST == 128
V6_ECHO_REPLY == 129

\* u16::to_be_bytes / u16::from_be_bytes; a u32 <<high, low>> as four bytes.
ToBeBytes(w) == <<w \div 256, w % 256>>
FromBeBytes(x, y) == x * 256 + y
ToBeBytes32(x) == ToBeBytes(x[1]) \o ToBeBytes(x[2])

\* The for loop of icmp4::checksum: the sum of the 16-bit big-endian words
\* of the packet, an odd trailing byte padded with zero.  The packets are
\* far too short for the u32 sum to wrap.
RECURSIVE SumChunks(_)
SumChunks(pkt) ==
    IF Len(pkt) = 0 THEN 0
    ELSE IF Len(pkt) = 1 THEN FromBeBytes(pkt[1], 0)
    ELSE FromBeBytes(pkt[1], pkt[2]) + SumChunks(SubSeq(pkt, 3, Len(pkt)))

\* A sum that is returned as it is.
FoldNever(sum) == sum

\* The while loop of icmp4::checksum: while (sum >> 16) > 0, add the carry
\* to the low 16 bits.
RECURSIVE Fold(_)
Fold(sum) ==
    IF sum \div U16 > 0 THEN Fold((sum % U16) + (sum \div U16)) ELSE sum

\* icmp4::checksum(pkt): !sum as u16, the complement of the low 16 bits.
Checksum(pkt) == (U16 - 1) - (Fold(SumChunks(pkt)) % U16)

\* The header of the packet a probe leaves in: Ipv4Header::new(len, ttl,
\* protocol, src, dst) / PacketBuilder::ipv4(src, dst, ttl) written by
\* encode for IPv4; for IPv6 encode writes no IP header, the kernel puts
\* one in front with the protocol of the raw socket.
IpHeader(probe, ttl) ==
    [v        |-> Fam(probe.src),
     ttl      |-> ttl,
     protocol |-> CASE probe.proto = "ICMP" -> (IF Fam(probe.src) = 4 THEN ICMP4 ELSE ICMP6)
                    [] probe.proto = "TCP"  -> TCP
                    [] OTHER                -> UDP,
     src      |-> probe.src,
     dst      |-> probe.dst]

\* ICMPv4::encode / ICMPv6::encode: the 8-byte echo request with id and seq;
\* the IPv4 one carries its checksum, the IPv6 one a zero checksum field.
IcmpEncode(probe) ==
    LET kind == IF Fam(probe.src) = 4 THEN V4_ECHO_REQUEST ELSE V6_ECHO_REQUEST
        pkt  == <<kind, 0, 0, 0>> \o ToBeBytes(probe.num) \o ToBeBytes(probe.seq[2])
        sum  == IF Fam(probe.src) = 4 THEN Checksum(pkt) ELSE 0
    IN  <<kind, 0>> \o ToBeBytes(sum) \o ToBeBytes(probe.num) \o ToBeBytes(probe.seq[2])

\* TCPv4::encode / TCPv6::encode: a 20-byte TCP header with the ports, seq,
\* ack 0, data offset 5, SYN, window 5840; the checksum field is left out of
\* account (written as 0), no decoder reads it.
TcpEncode(probe) ==
    ToBeBytes(probe.num) \o ToBeBytes(probe.dport) \o ToBeBytes32(probe.seq)
        \o <<0, 0, 0, 0>> \o <<80, 2>> \o ToBeBytes(5840) \o <<0, 0>> \o <<0, 0>>

\* UDPv4::encode / UDPv6::encode: the 8-byte UDP header with the ports and
\* length 8; the checksum field is left out of account as for TCP.
UdpEncode(probe) ==
    ToBeBytes(probe.num) \o ToBeBytes(probe.dport) \o ToBeBytes(8) \o <<0, 0>>

\* Probe::encode(buf, ttl) as the packet is on the wire and is cited by an
\* ICMP error: the IP header, then the transport header.
ProbeEncode(probe, ttl) ==
    [head |-> IpHeader(probe, ttl),
     tail |-> CASE probe.proto = "ICMP" -> IcmpEncode(probe)
                [] probe.proto = "TCP"  -> TcpEncode(probe)
                [] OTHER                -> UdpEncode(probe)]

\* A decoder that takes the id from the bytes of the sequence number.
IcmpDecodeSeqAsId(head, tail) ==
    IF Len(tail) < HEADER_SIZE THEN Err("short buffer")
    ELSE Ok(TraceProbe("ICMP", head.src, FromBeBytes(tail[7], tail[8]), head.dst, 0,
                       <<0, FromBeBytes(tail[7], tail[8])>>))

\* ICMPv4::decode / ICMPv6::decode: id from tail[4..6], seq from tail[6..8],
\* "short buffer" for less than a header.
IcmpDecode(head, tail) ==
    IF Len(tail) < HEADER_SIZE THEN Err("short buffer")
    ELSE Ok(TraceProbe("ICMP", head.src, FromBeBytes(tail[5], tail[6]), head.dst, 0,
                       <<0, FromBeBytes(tail[7], tail[8])>>))

\* The buffer TCPv4::decode parses: [80u8; 64] with the first min(64, n)
\* bytes of the tail copied over it.
TcpBuf(tail) == [i \in 1..64 |-> IF i <= Len(tail) THEN tail[i] ELSE 80]

\* TCPv4::decode / TCPv6::decode: TcpHeaderSlice::from_slice(&buf) refuses a
\* data offset below 5; ports and seq are read from the header.
TcpDecode(head, tail) ==
    LET buf == TcpBuf(tail)
    IN  IF buf[13] \div 16 < 5 THEN Err("data offset")
        ELSE Ok(TraceProbe("TCP", head.src, FromBeBytes(buf[1], buf[2]), head.dst,
                           FromBeBytes(buf[3], buf[4]),
                           <<FromBeBytes(buf[5], buf[6]), FromBeBytes(buf[7], buf[8])>>))

\* UDPv4::decode / UDPv6::decode: UdpHeaderSlice::from_slice refuses less
\* than the 8 bytes of the header; the ports are read from it.
UdpDecode(head, tail) ==
    IF Len(tail) < 8 THEN Err("unexpected end of slice")
    ELSE Ok(TraceProbe("UDP", head.src, FromBeBytes(tail[1], tail[2]), head.dst,
                       FromBeBytes(tail[3], tail[4]), <<0, 0>>))

\* The `?` and .key() of the decode arms: the Key of the decoded probe.
KeyOf(res) == IF res.ok THEN Ok(ProbeKey(res.val)) ELSE res

\* Probe::decode4(pkt): Ipv4Header::read_from_slice(pkt)?, then the decoder
\* head.protocol selects.
Decode4(pkt) ==
    IF pkt.head.v # 4 THEN Err("invalid ip version")
    ELSE CASE pkt.head.protocol = ICMP4 -> KeyOf(IcmpDecode(pkt.head, pkt.tail))
           [] pkt.head.protocol = TCP   -> KeyOf(TcpDecode(pkt.head, pkt.tail))
           [] pkt.head.protocol = UDP   -> KeyOf(UdpDecode(pkt.head, pkt.tail))
           [] OTHER                     -> Err("unsupported protocol")

\* Probe::decode6(pkt): Ipv6Header::read_from_slice(pkt)?, then the decoder
\* head.next_header selects.
Decode6(pkt) ==
    IF pkt.head.v # 6 THEN Err("invalid ip version")
    ELSE CASE pkt.head.protocol = ICMP6 -> KeyOf(IcmpDecode(pkt.head, pkt.tail))
           [] pkt.head.protocol = TCP   -> KeyOf(TcpDecode(pkt.head, pkt.tail))
           [] pkt.head.protocol = UDP   -> KeyOf(UdpDecode(pkt.head, pkt.tail))
           [] OTHER                     -> Err("unsupported protocol")

\* Values of a u16 field whose two bytes differ, and the largest.
WireNums == {1, 258, U16 - 1}
\* Values of seq: of a fresh probe (0 for ICMP, 1 for TCP) and a later one.
WireSeqs(proto) ==
    CASE proto = "ICMP" -> {<<0, 0>>, <<0, 772>>}
      [] proto = "TCP"  -> {<<0, 1>>, <<258, 772>>}
      [] OTHER          -> {<<0, 0>>}
\* Values of the ttl: u8.
Ttls == {0, 1, U8 - 1}

\* The probes encoded: every protocol and family, with a ttl.
EncodeInputs ==
    UNION {{[op |-> "encode", probe |-> TraceProbe(q, <<f, "a">>, n, <<f, h>>, d, s),
             ttl |-> ttl] :
                f \in Families, h \in Hosts, n \in WireNums, d \in {0, 258},
                s \in WireSeqs(q), ttl \in Ttls} : q \in TProtos}

\* Probe::encode, and Probe::decode4 / decode6 of the packet as an ICMP error
\* of the probe's family cites it.
CallEncodeDecode ==
    /\ engine = "codec"
    /\ cin.op = "encode"
    /\ cpc = "call"
    /\ cout' = LET pkt == ProbeEncode(cin.probe, cin.ttl)
               IN  IF Fam(cin.probe.src) = 4 THEN Decode4(pkt) ELSE Decode6(pkt)
    /\ cpc' = "done"
    /\ UNCHANGED <<engine, cin, down, out, lvars, pvars, kvars, tvars>>


\* The increment() calls made on one probe.
MaxIncs == 2

\* Whether `+ 1` overflows the field increment() advances: seq: u16 of an
\* ICMP probe, seq: u32 of a TCP probe, the destination port of a UDP probe.
IncrementOverflows(probe) ==
    CASE probe.proto = "ICMP" -> probe.seq[2] = U16 - 1
      [] probe.proto = "TCP"  -> probe.seq = U32Max
      [] OTHER                -> probe.dport = U16 - 1

\* ICMPv4::increment / ICMPv6::increment: self.seq += 1, as a build without
\* overflow checks computes it.
IcmpIncrement(probe) == [probe EXCEPT !.seq = <<0, (@[2] + 1) % U16>>]

\* TCPv4::increment / TCPv6::increment: self.seq += 1 on the u32.
TcpIncrement(probe) == [probe EXCEPT !.seq = U32WrappingInc(@)]

\* UDPv4::increment / UDPv6::increment:
\* self.dst.set_port(self.dst.port() + 1).
UdpIncrement(probe) == [probe EXCEPT !.dport = (@ + 1) % U16]

\* Probe::increment: the increment of the variant.
ProbeIncrement(probe) ==
    CASE probe.proto = "ICMP" -> IcmpIncrement(probe)
      [] probe.proto = "TCP"  -> TcpIncrement(probe)
      [] OTHER                -> UdpIncrement(probe)

\* The probes incremented: every protocol and family, the advancing field
\* at the start, in the middle and at the end of its range.
IncInputs ==
    UNION {{[op |-> "inc", probe |-> TraceProbe(q, <<f, "a">>, 1, <<f, "b">>, d, s)] :
                f \in Families,
                d \in (IF q = "UDP" THEN {0, PORT_MIN, U16 - 2, U16 - 1}
                       ELSE IF q = "TCP" THEN {443} ELSE {0}),
                s \in (CASE q = "ICMP" -> {<<0, 0>>, <<0, 772>>, <<0, U16 - 2>>, <<0, U16 - 1>>}
                         [] q = "TCP"  -> {<<0, 1>>, <<0, U16 - 1>>, <<U16 - 1, U16 - 2>>, U32Max}
                         [] OTHER      -> {<<0, 0>>})} : q \in TProtos}

\* The probe as the calls so far left it, and their number.
IncProbe == IF cpc = "call" THEN cin.probe ELSE cout.val.probe
IncCount == IF cpc = "call" THEN 0 ELSE cout.val.n

\* probe.increment() returns; where the addition overflows this is a build
\* without overflow checks, which wraps.
CallIncrement ==
    /\ engine = "codec"
    /\ cin.op = "inc"
    /\ cpc \in {"call", "done"}
    /\ IncCount < MaxIncs
    /\ cout' = Ok([probe |-> ProbeIncrement(IncProbe), n |-> IncCount + 1])
    /\ cpc' = "done"
    /\ UNCHANGED <<engine, cin, down, out, lvars, pvars, kvars, tvars>>

\* probe.increment() in a build with overflow checks: the addition panics
\* with "attempt to add with overflow".
CallIncrementPanic ==
    /\ engine = "codec"
    /\ cin.op = "inc"
    /\ cpc \in {"call", "done"}
    /\ IncCount < MaxIncs
    /\ IncrementOverflows(IncProbe)
    /\ cpc' = "panicked"
    /\ UNCHANGED <<engine, cin, cout, down, out, lvars, pvars, kvars, tvars>>

\* ping Probe::encode(buf) on the 64-byte buffer of Sock4::send: type, code
\* 0, a zero checksum field, id, seq and the token; the slice returned is
\* the whole buffer, zero behind the token.
PingEncode(id, seq, token) ==
    LET pkt == <<V4_ECHO_REQUEST, 0, 0, 0>> \o ToBeBytes(id) \o ToBeBytes(seq) \o token
    IN  pkt \o [i \in 1..(PING_BUF - Len(pkt)) |-> 0]

\* pkt[2..4].copy_from_slice(&cksum.to_be_bytes())
WriteChecksum(pkt, cksum) ==
    [i \in 1..Len(pkt) |-> IF i = 3 THEN ToBeBytes(cksum)[1]
                           ELSE IF i = 4 THEN ToBeBytes(cksum)[2] ELSE pkt[i]]

\* 16-byte tokens: all zero, all ones, and bytes that differ.
TokenBytes ==
    {[i \in 1..TOKEN_SIZE |-> 0], [i \in 1..TOKEN_SIZE |-> 255], [i \in 1..TOKEN_SIZE |-> 16 * i + 1]}

\* Echo data of even and odd length.
EchoData == {<<>>, <<255>>, <<1, 2, 3>>, <<255, 255, 255>>, <<128, 0, 127, 255>>}

\* The ICMPv4 echo packets summed, their checksum field zero: the packets
\* of the ping engine, and echo requests and replies with any data.
SumInputs ==
    {[op |-> "sum", pkt |-> PingEncode(id, seq, tok)] :
        id \in WireNums \cup {0}, seq \in WireNums \cup {0}, tok \in TokenBytes}
    \cup {[op |-> "sum",
           pkt |-> <<kind, 0, 0, 0>> \o ToBeBytes(id) \o ToBeBytes(seq) \o data] :
              kind \in {V4_ECHO_REQUEST, V4_ECHO_REPLY}, id \in WireNums \cup {0},
              seq \in {0, U16 - 1}, data \in EchoData}

\* Sock4::send: checksum(pkt) is written into the checksum field.
CallChecksum ==
    /\ engine = "codec"
    /\ cin.op = "sum"
    /\ cpc = "call"
    /\ cout' = Ok(WriteChecksum(cin.pkt, Checksum(cin.pkt)))
    /\ cpc' = "done"
    /\ UNCHANGED <<engine, cin, down, out, lvars, pvars, kvars, tvars>>

\* A decoded ICMP message: the variant, the sub-variant of an Unreachable,
\* the numbers the variant carries (id and seq of an Echo, the code of an
\* Unreachable::Other, type and code of an Other) and the bytes it borrows.
Variant(name, sub, args, data) ==
    [variant |-> name, sub |-> sub, args |-> args, data |-> data]

\* &slice[n..]
From(slice, n) == SubSeq(slice, n + 1, Len(slice))

\* icmp::echo::Echo::try_from(slice), the Echo of an ICMPv4 message: id,
\* seq, token &slice[4..TOKEN_SIZE + 4], data &slice[4..].  The token range
\* is taken without a length check.
Echo4Panics(slice) == Len(slice) < TOKEN_SIZE + 4
Echo4(name, slice) ==
    Variant(name, "", <<FromBeBytes(slice[1], slice[2]), FromBeBytes(slice[3], slice[4])>>,
            From(slice, 4))

\* icmp6::Echo::try_from(slice): id, seq, data &slice[4..].
Echo6(name, slice) ==
    Variant(name, "", <<FromBeBytes(slice[1], slice[2]), FromBeBytes(slice[3], slice[4])>>,
            From(slice, 4))

\* icmp4::Unreachable::try_from((code, slice)): data = &slice[4..].
Unreachable4(code, slice) ==
    CASE code = 0 -> Variant("Unreachable", "Net", <<>>, From(slice, 4))
      [] code = 1 -> Variant("Unreachable", "Host", <<>>, From(slice, 4))
      [] code = 2 -> Variant("Unreachable", "Protocol", <<>>, From(slice, 4))
      [] code = 3 -> Variant("Unreachable", "Port", <<>>, From(slice, 4))
      [] OTHER    -> Variant("Unreachable", "Other", <<code>>, From(slice, 4))

\* icmp6::Unreachable::try_from((code, slice)).
Unreachable6(code, slice) ==
    CASE code = 3 -> Variant("Unreachable", "Address", <<>>, From(slice, 4))
      [] code = 4 -> Variant("Unreachable", "Port", <<>>, From(slice, 4))
      [] OTHER    -> Variant("Unreachable", "Other", <<code>>, From(slice, 4))

\* Whether IcmpV4Packet::try_from(slice) panics: an echo request or reply
\* of a whole header whose Echo cannot be sliced.
IcmpV4Panics(slice) ==
    /\ Len(slice) >= HEADER_SIZE
    /\ slice[1] \in {V4_ECHO_REPLY, V4_ECHO_REQUEST}
    /\ slice[2] = 0
    /\ Echo4Panics(From(slice, 4))

\* IcmpV4Packet::try_from(slice) where it returns.
IcmpV4TryFrom(slice) ==
    IF Len(slice) < HEADER_SIZE THEN Err("invalid slice")
    ELSE LET kind == slice[1]
             code == slice[2]
             rest == From(slice, 4)
         IN  Ok(CASE kind = V4_ECHO_REPLY /\ code = 0   -> Echo4("EchoReply", rest)
                  [] kind = V4_UNREACHABLE              -> Unreachable4(code, rest)
                  [] kind = V4_ECHO_REQUEST /\ code = 0 -> Echo4("EchoRequest", rest)
                  [] kind = V4_TIME_EXCEEDED            ->
                        Variant("TimeExceeded", "", <<>>, From(rest, 4))
                  [] OTHER -> Variant("Other", "", <<kind, code>>, rest))

\* IcmpV6Packet::try_from(slice).
IcmpV6TryFrom(slice) ==
    IF Len(slice) < HEADER_SIZE THEN Err("invalid slice")
    ELSE LET kind == slice[1]
             code == slice[2]
             rest == From(slice, 4)
         IN  Ok(CASE kind = V6_UNREACHABLE                -> Unreachable6(code, rest)
                  [] kind = V6_TIME_EXCEEDED /\ code = 0 ->
                        Variant("HopLimitExceeded", "", <<>>, From(rest, 4))
                  [] kind = V6_TIME_EXCEEDED /\ code = 1 ->
                        Variant("ReassemblyTimeExceeded", "", <<>>, From(rest, 4))
                  [] kind = V6_ECHO_REQUEST /\ code = 0  -> Echo6("EchoRequest", rest)
                  [] kind = V6_ECHO_REPLY /\ code = 0    -> Echo6("EchoReply", rest)
                  [] OTHER -> Variant("Other", "", <<kind, code>>, rest))

\* ICMP types and codes: the ones the decoders name, and others.
IcmpKinds ==
    {V4_ECHO_REPLY, V4_UNREACHABLE, V4_ECHO_REQUEST, V4_TIME_EXCEEDED, V6_UNREACHABLE,
     V6_ECHO_REQUEST, V6_ECHO_REPLY, 5}
IcmpCodes == 0..5
\* Lengths of a message: short of a header, a header, and with an echo
\* token's worth of data less one byte, and all of it.
IcmpLens == {HEADER_SIZE - 1, HEADER_SIZE, HEADER_SIZE + TOKEN_SIZE - 1, HEADER_SIZE + TOKEN_SIZE}

\* The messages decoded, by either decoder.
ClassifyInputs ==
    {[op |-> "classify", fam |-> f,
      pkt |-> [i \in 1..n |-> IF i = 1 THEN k ELSE IF i = 2 THEN c ELSE i]] :
        f \in Families, k \in IcmpKinds, c \in IcmpCodes, n \in IcmpLens}

\* IcmpV4Packet::try_from / IcmpV6Packet::try_from returns.
CallTryFrom ==
    /\ engine = "codec"
    /\ cin.op = "classify"
    /\ cpc = "call"
    /\ ~(cin.fam = 4 /\ IcmpV4Panics(cin.pkt))
    /\ cout' = IF cin.fam = 4 THEN IcmpV4TryFrom(cin.pkt) ELSE IcmpV6TryFrom(cin.pkt)
    /\ cpc' = "done"
    /\ UNCHANGED <<engine, cin, down, out, lvars, pvars, kvars, tvars>>

\* IcmpV4Packet::try_from panics in Echo::try_from: "range end index 20 out
\* of range for slice".
CallTryFromPanic ==
    /\ engine = "codec"
    /\ cin.op = "classify"
    /\ cpc = "call"
    /\ cin.fam = 4 /\ IcmpV4Panics(cin.pkt)
    /\ cpc' = "panicked"
    /\ UNCHANGED <<engine, cin, cout, down, out, lvars, pvars, kvars, tvars>>

\* The `count` of a ping whose probes are all answered: one probe, and one
\* more than there are u16 sequence numbers.
UnfoldCounts == {1, U16 + 1}
UnfoldInputs == {[op |-> "unfold", count |-> c] : c \in UnfoldCounts}

\* Pinger::ping, try_unfold(0, ..) is polled for its first item: the closure
\* is called with seq = 0 and builds probe number 0 with it.
CallUnfold ==
    /\ engine = "codec"
    /\ cin.op = "unfold"
    /\ cpc = "call"
    /\ cout' = Ok([k |-> 0, seq |-> 0])
    /\ cpc' = "done"
    /\ UNCHANGED <<engine, cin, down, out, lvars, pvars, kvars, tvars>>

\* The probe was answered: the closure returns Ok(Some((rtt,
\* seq.wrapping_add(1)))), and unless take(count) has ended the stream the
\* closure is called with the new state and builds the next probe with it.
CallUnfoldNext ==
    /\ engine = "codec"
    /\ cin.op = "unfold"
    /\ cpc = "done"
    /\ cout.val.k + 1 < cin.count
    /\ cout' = Ok([k |-> cout.val.k + 1, seq |-> U16WrappingAdd(cout.val.seq)])
    /\ UNCHANGED <<engine, cin, cpc, down, out, lvars, pvars, kvars, tvars>>

\* The calls checked: every function with each of its arguments.
CodecInputs == NewInputs \cup EncodeInputs \cup IncInputs \cup SumInputs
        \cup ClassifyInputs \cup UnfoldInputs
NoInput == [op |-> "none"]

CodecNext ==
    \/ CallNew
    \/ CallEncodeDecode
    \/ CallIncrement
    \/ CallIncrementPanic
    \/ CallChecksum
    \/ CallTryFrom
    \/ CallTryFromPanic
    \/ CallUnfold
    \/ CallUnfoldNext

\* ======================================================= the demux map lock

\* The Mutex of knock::State, statement by statement: the calls that reserve
\* a Key, hold the Lease over their probes and drop it, and the receive
\* loop that looks a Sender up for each packet.  (ping::State and
\* trace::State lock in the same places: inside insert, remove, release and
\* the `if let` of reserve.)
RecvTask == Cardinality(Streams) + 1
LockTasks == Streams \cup {RecvTask}
NoTask == 0

\* The positions at which a task is suspended in an .await: the yield of
\* reserve, the sends, receives and timers of a stream that holds its
\* Lease, the select! of the receive loop and its tx.send.
LockSuspended == {"yield", "leased", "select", "send"}

\* State::reserve, `self.state.lock()`: the call blocks until the Mutex is
\* free and holds the guard.
LockReserveLock(s) ==
    /\ engine = "lock"
    /\ lpc[s] = "reserve"
    /\ mlock = NoTask
    /\ mlock' = s
    /\ lpc' = [lpc EXCEPT ![s] = "entry"]
    /\ UNCHANGED <<engine, cvars, down, out, pvars, kvars, tvars>>

\* A reserve whose guard outlives the `if let` when the entry is occupied.
LockReserveEntryKeepsGuard(s, port) ==
    /\ engine = "lock"
    /\ lpc[s] = "entry"
    /\ LET key == KnockKey(<<LocalIP, port>>, KTarget)
       IN  IF KnockVacant(kmap, key)
           THEN /\ kmap' = KnockReserveInsert(kmap, key, s)
                /\ ksrc' = [ksrc EXCEPT ![s] = port]
                /\ lpc'  = [lpc EXCEPT ![s] = "leased"]
                /\ mlock' = NoTask
           ELSE /\ lpc'  = [lpc EXCEPT ![s] = "yield"]
                /\ UNCHANGED <<kmap, ksrc, mlock>>
    /\ UNCHANGED <<engine, cvars, down, out, pvars, tvars, kpc, kcount, kseq, kq, kitems, khit, knet, krecv>>

\* State::reserve, the `if let Entry::Vacant(e) = ..lock().entry(key)` with
\* the guard held: insert and return the Lease, or fall out of the
\* `if let`; either way the guard, a temporary of the `if let`, is dropped
\* before the stream goes on or yield_now() is awaited.
LockReserveEntry(s, port) ==
    /\ engine = "lock"
    /\ lpc[s] = "entry"
    /\ LET key == KnockKey(<<LocalIP, port>>, KTarget)
       IN  IF KnockVacant(kmap, key)
           THEN /\ kmap' = KnockReserveInsert(kmap, key, s)
                /\ ksrc' = [ksrc EXCEPT ![s] = port]
                /\ lpc'  = [lpc EXCEPT ![s] = "leased"]
           ELSE /\ lpc'  = [lpc EXCEPT ![s] = "yield"]
                /\ UNCHANGED <<kmap, ksrc>>
    /\ mlock' = NoTask
    /\ UNCHANGED <<engine, cvars, down, out, pvars, tvars, kpc, kcount, kseq, kq, kitems, khit, knet, krecv>>

\* task::yield_now().await returned.
LockResume(s) ==
    /\ engine = "lock"
    /\ lpc[s] = "yield"
    /\ lpc' = [lpc EXCEPT ![s] = "reserve"]
    /\ UNCHANGED <<engine, cvars, mlock, down, out, pvars, kvars, tvars>>

\* impl Drop for Lease, State::remove: `self.state.lock()`.
LockDropLock(s) ==
    /\ engine = "lock"
    /\ lpc[s] = "leased"
    /\ mlock = NoTask
    /\ mlock' = s
    /\ lpc' = [lpc EXCEPT ![s] = "remove"]
    /\ UNCHANGED <<engine, cvars, down, out, pvars, kvars, tvars>>

\* State::remove: `.remove(&Key(src, dst))`; the guard is dropped at the end
\* of the statement.
LockDropRemove(s) ==
    /\ engine = "lock"
    /\ lpc[s] = "remove"
    /\ kmap' = KnockStateRemove(kmap, <<LocalIP, ksrc[s]>>, KTarget)
    /\ mlock' = NoTask
    /\ lpc' = [lpc EXCEPT ![s] = "dropped"]
    /\ UNCHANGED <<engine, cvars, down, out, pvars, tvars, kpc, kcount, ksrc, kseq, kq, kitems, khit, knet, krecv>>

\* The receive loop read a packet: State::sender locks the map.
LockRecvLock ==
    /\ engine = "lock"
    /\ lpc[RecvTask] = "select"
    /\ mlock = NoTask
    /\ mlock' = RecvTask
    /\ lpc' = [lpc EXCEPT ![RecvTask] = "lookup"]
    /\ UNCHANGED <<engine, cvars, down, out, pvars, kvars, tvars>>

\* State::sender returns a clone of the Sender stored under the packet's
\* Key, or None, and with it drops the guard; the loop then awaits
\* tx.send(..), or select! again.
LockRecvLookup(port) ==
    /\ engine = "lock"
    /\ lpc[RecvTask] = "lookup"
    /\ mlock' = NoTask
    /\ lpc' = [lpc EXCEPT ![RecvTask] =
                 IF KnockStateSender(kmap, <<LocalIP, port>>, KTarget) # NoSender
                 THEN "send" ELSE "select"]
    /\ UNCHANGED <<engine, cvars, down, out, pvars, kvars, tvars>>

\* tx.send(..).await completed.
LockRecvSent ==
    /\ engine = "lock"
    /\ lpc[RecvTask] = "send"
    /\ lpc' = [lpc EXCEPT ![RecvTask] = "select"]
    /\ UNCHANGED <<engine, cvars, mlock, down, out, pvars, kvars, tvars>>

LockInit ==
    /\ mlock = NoTask
    /\ lpc = [t \in LockTasks |-> IF t = RecvTask THEN "select" ELSE "reserve"]

LockNext ==
    \/ \E s \in Streams : LockReserveLock(s)
    \/ \E s \in Streams, port \in Ports : LockReserveEntry(s, port)
    \/ \E s \in Streams : LockResume(s)
    \/ \E s \in Streams : LockDropLock(s)
    \/ \E s \in Streams : LockDropRemove(s)
    \/ LockRecvLock
    \/ \E port \in Ports : LockRecvLookup(port)
    \/ LockRecvSent

\* ==================================================================== whole

\* The state after the engines are constructed and the calls are made with
\* their inputs; `engines` are the engines a behaviour may exercise.
InitOf(engines) ==
    /\ engine \in engines
    /\ down = FALSE
    /\ out = [s \in Streams |-> 0]
    /\ pcount \in (IF engine = "ping" THEN Counts ELSE {NoCounts})
    /\ kcount \in (IF engine = "knock" THEN Counts ELSE {NoCounts})
    /\ tin    \in (IF engine = "trace" THEN TraceInputs ELSE {NoTraces})
    /\ tdist  \in (IF engine = "trace" THEN TraceDists(tin) ELSE {0})
    /\ tfam   \in (IF engine = "trace" THEN TraceFams(tin) ELSE {4})
    /\ cin    \in (IF engine = "codec" THEN CodecInputs ELSE {NoInput})
    /\ cpc = "call"
    /\ cout = NoResult
    /\ PingInit
    /\ KnockInit
    /\ TraceInit
    /\ LockInit

Init == InitOf(Engines)
InitPing == InitOf({"ping"})
InitKnock == InitOf({"knock"})
InitTrace == InitOf({"trace"})
InitCodec == InitOf({"codec"})

Next ==
    \/ PingNext
    \/ KnockNext
    \/ TraceNext

Spec == Init /\ [][Next]_vars
SpecPing == InitPing /\ [][PingNext]_vars
SpecPingTimed == InitPing /\ [][PingTimedNext]_vars
SpecKnock == InitKnock /\ [][KnockNext]_vars
SpecTrace == InitTrace /\ [][TraceNext]_vars
SpecCodec == InitCodec /\ [][CodecNext]_vars
SpecLock == InitOf({"lock"}) /\ [][LockNext]_vars

\* The runtime polls a receive task whose shutdown.recv() is ready, and
\* select! takes a ready branch: a loop waiting in select! after the
\* broadcast eventually breaks.  A pending tx.send of the knock loop
\* completes once its queue has room or its Receiver is gone.
Fairness ==
    /\ WF_vars(PingShutdown)
    /\ WF_vars(KnockShutdown)
    /\ WF_vars(KnockRecvResume)
    /\ \A task \in TraceTasks : WF_vars(TraceShutdown(task))

SpecFair == Spec /\ Fairness
SpecTraceFair == SpecTrace /\ Fairness

\* State::reserve on its own, in both engines that reserve ports: the calls
\* of the Streams and of other callers reserve, yield and are dropped; no
\* probe is sent.
ReserveNext ==
    \/ \E s \in Streams, port \in Ports : KnockReserve(s, port)
    \/ \E s \in Streams : KnockResume(s)
    \/ \E s \in Streams : KnockCancel(s)
    \/ \E port \in Ports : KnockOtherReserve(port)
    \/ \E r \in Streams, port \in Ports : TraceReserve(r, port)
    \/ \E r \in Streams : TraceResume(r)
    \/ \E r \in Streams : TraceCancel(r)
    \/ \E proto \in TProtos, port \in Ports : TraceOtherReserve(proto, port)

\* thread_rng().sample(range) draws every port of the range again and again
\* (fair random draws), and the runtime polls a task that yielded.
ReserveFairness ==
    /\ \A s \in Streams, port \in Ports : SF_vars(KnockReserve(s, port))
    /\ \A s \in Streams : WF_vars(KnockResume(s))
    /\ \A r \in Streams, port \in Ports : SF_vars(TraceReserve(r, port))
    /\ \A r \in Streams : WF_vars(TraceResume(r))

\* reserve is given the protocol and the source address only: the other
\* inputs of a route call are held at one value.
InitReserve ==
    /\ InitOf({"knock", "trace"})
    /\ tdist = 0
    /\ tfam = 4
    /\ \A r \in Streams : tin[r].probes = 1 /\ tin[r].limit = 0
SpecReserve == InitReserve /\ [][ReserveNext]_vars /\ ReserveFairness

\* ================================================================== claims

Last(seq) == seq[Len(seq)]

\* C1: when a receive loop decodes a packet to a Key, the reply goes to the
\* waiter registered under that Key in the engine's map and to no other, and
\* with no entry for the Key nothing is delivered and the map stays as it is.
C1_DeliveredOnlyToRegistered ==
    [][ /\ \A pkt \in KPackets :
              KnockRecv(pkt) =>
                  LET reg == kmap[KnockKey(pkt.dst, pkt.src)]
                  IN  /\ kmap' = kmap
                      /\ \A s \in Streams : kq'[s] # kq[s] => s = reg
                      /\ reg = NoSender => kq' = kq /\ krecv' = krecv
                      /\ reg # NoSender =>
                            \/ kq'[reg] = Append(kq[reg], pkt.head)
                            \/ /\ Len(kq[reg]) = QueueCap
                               /\ krecv' = [st |-> "sending", to |-> reg, head |-> pkt.head]
        /\ KnockRecvResume =>
              \A s \in Streams :
                  kq'[s] # kq[s] => s = krecv.to /\ kmap[KLeaseKey(s)] = s
        /\ \A tok \in Tokens :
              PingRecv(tok, TOKEN_SIZE) =>
                  LET reg == pmap[tok]
                  IN  /\ \A s \in Streams : prx'[s] # prx[s] => s = reg
                      /\ reg = NoSender => pmap' = pmap /\ prx' = prx
                      /\ reg # NoSender => prx'[reg] = "value"
      ]_vars

\* A reply was queued for one knock stream while the other, registered under
\* another Key, received nothing.
C1_Witness ==
    /\ kpc[1] = "waiting" /\ kpc[2] = "waiting"
    /\ kq[1] # <<>> /\ kq[2] = <<>>

\* C2: no two live Leases of an engine hold the same Key: two live knock
\* Leases have different source ports, two live trace Leases of one protocol
\* have different source ports.
C2_LiveLeasesDistinct ==
    \A a \in Streams, b \in Streams :
        a # b =>
            /\ KLive(a) /\ KLive(b) => ksrc[a] # ksrc[b]
            /\ TLive(a) /\ TLive(b) /\ tin[a].proto = tin[b].proto => tsrc[a] # tsrc[b]

\* Two knock Leases are live at once, each registered under its own Key.
C2_Witness ==
    /\ KLive(1) /\ KLive(2)
    /\ kmap[KLeaseKey(1)] = 1 /\ kmap[KLeaseKey(2)] = 2

\* C3: the step that drops a Lease (completion, timeout, send failure,
\* cancellation) leaves no entry under its Key, and at no time does a map
\* hold an entry of a stream without a live Lease for that Key, nor a dropped
\* knock Lease a queued reply.
C3_DropRemovesKey ==
    [][ /\ \A s \in Streams :
              /\ KLive(s) /\ kpc'[s] \notin {"ready", "sending", "waiting", "done"}
                    => kmap'[KLeaseKey(s)] = NoSender /\ kq'[s] = <<>>
              /\ PLive(s) /\ ppc'[s] \notin {"sending", "sent", "waiting"}
                    => pmap'[ptoken[s]] = NoSender
        /\ \A k \in KKeys :
              kmap'[k] # NoSender =>
                  /\ kpc'[kmap'[k]] \in {"ready", "sending", "waiting", "done"}
                  /\ k = KnockKey(<<LocalIP, ksrc'[kmap'[k]]>>, KTarget)
        /\ \A tok \in Tokens :
              pmap'[tok] # NoSender =>
                  /\ ppc'[pmap'[tok]] \in {"sending", "sent", "waiting"}
                  /\ ptoken'[pmap'[tok]] = tok
      ]_vars

\* A knock stream was dropped with its first probe on the wire and no item
\* yielded, and its Key has no entry.
C3_Witness ==
    \E s \in Streams :
        /\ kpc[s] = "dropped" /\ kcount[s] > 0 /\ kitems[s] = <<>>
        /\ kseq[s] \in knet
        /\ kmap[KLeaseKey(s)] = NoSender

\* C4: a probe that ends its wait with no reply delivered completes with
\* None (ping, knock) or Node::None(ttl) (trace), and in the state after it
\* its Key is in no map or port table.
C4_TimeoutNoneAndReleased ==
    [][ \A s \in Streams :
          /\ ppc[s] = "waiting" /\ prx[s] # "value" /\ ppc'[s] \in {"idle", "done", "failed"}
                => Last(pitems'[s]) = "None" /\ pmap'[ptoken[s]] = NoSender
          /\ kpc[s] = "waiting" /\ kq[s] = <<>> /\ kpc'[s] \in {"ready", "done"}
                => Last(kitems'[s]) = "None" /\ kmap'[KLeaseKey(s)] = NoSender
          /\ tpc[s] = "waiting" /\ trx[s] = NoEcho /\ tpc'[s] \in {"send", "row"}
                => /\ Last(trow'[s]) = [ttl |-> tttl[s], ip |-> NoIP, last |-> FALSE]
                   /\ tsrc[s] \notin (CASE tin[s].proto = "TCP" -> ttcp'
                                         [] tin[s].proto = "UDP" -> tudp'
                                         [] OTHER -> ticmp')
      ]_vars

\* C5: at most one arrival timestamp is sent to the channel of a ping Lease.
C5_AtMostOneTimestamp ==
    \A s \in Streams : pgot[s] <= 1

\* A timestamp was delivered to a waiting ping probe and the entry of its
\* token is gone, so a duplicate of the reply finds nothing.
C5_Witness ==
    \E s \in Streams :
        /\ ppc[s] = "waiting" /\ pgot[s] = 1 /\ prx[s] = "value"
        /\ pmap[ptoken[s]] = NoSender

\* C6: a ping stream none of whose sends failed yields only Some / None
\* items, and has yielded exactly `count` of them when it has ended.
C6_CountItems ==
    \A s \in Streams :
        (\A i \in 1..Len(pitems[s]) : pitems[s][i] # "SendErr") =>
            /\ \A i \in 1..Len(pitems[s]) : pitems[s][i] \in {"Some", "None"}
            /\ ppc[s] \in {"done", "failed"} => Len(pitems[s]) = pcount[s]

\* C7: a knock probe yields Some exactly when a reply with SYN, ACK and
\* ack = seq + 1 for its Key reached the receive loop while it waited, and
\* None otherwise.
C7_SomeIffMatchingReply ==
    [][ \A s \in Streams :
          kpc[s] = "waiting" /\ kpc'[s] \in {"ready", "done"} =>
              (Last(kitems'[s]) = "Some" <=> khit[s])
      ]_vars

\* C8: between two probes of a knock stream the Key of the previous probe
\* is absent from the map.
C8_ReleasedBetweenProbes ==
    \A s \in Streams :
        kpc[s] = "ready" /\ Len(kitems[s]) >= 1 => kmap[KLeaseKey(s)] = NoSender

\* C9: no row of a route result but its last is a boundary row (a terminal
\* Node, or a hop equal to the target), and a result that route returned
\* ends with a boundary row or else has exactly `limit` rows.
C9_StopsAtBoundary ==
    \A r \in Streams :
        /\ \A k \in 1..(Len(trows[r]) - 1) : ~RouteBoundary(trows[r][k])
        /\ tpc[r] = "ok" =>
              \/ Len(trows[r]) = tin[r].limit
              \/ Len(trows[r]) >= 1 /\ RouteBoundary(Last(trows[r]))

\* route returned before `limit` rows, with a boundary row as its last.
C9_Witness ==
    \E r \in Streams :
        /\ tpc[r] = "ok"
        /\ Len(trows[r]) >= 1 /\ Len(trows[r]) < tin[r].limit
        /\ RouteBoundary(Last(trows[r]))

\* C10: the rows of a route are at most `limit`, each has exactly `probes`
\* entries, and every entry of the k-th row carries ttl = k.
C10_RowsWithinLimits ==
    \A r \in Streams :
        /\ Len(trows[r]) <= tin[r].limit
        /\ \A k \in 1..Len(trows[r]) :
              /\ Len(trows[r][k]) = tin[r].probes
              /\ \A i \in 1..Len(trows[r][k]) : trows[r][k][i].ttl = k

\* Call r waits, subscribed under `key`, and has received nothing yet.
TraceWaiter(r, key) ==
    /\ TLive(r) /\ tpc[r] = "waiting" /\ trx[r] = NoEcho
    /\ ProbeKey(TraceHeader(r)) = key

\* C11: an ICMPv4 DestinationUnreachable of any sub-code citing the probe
\* of a waiting call is published to that call with terminal = true, and the
\* Node built from a received Echo carries the Echo's terminal flag.
C11_Unreachable4Terminal ==
    [][ /\ \A pkt \in tnet :
              tfam = 4 /\ pkt.kind = "Unreachable" /\ TraceRecv(pkt) =>
                  \A r \in Streams :
                      TraceWaiter(r, ProbeKey(pkt.cite)) =>
                          trx'[r] = [ip |-> pkt.src, last |-> TRUE]
        /\ \A r \in Streams :
              TraceReply(r) =>
                  Last(trow'[r]) = [ttl |-> tttl[r], ip |-> trx[r].ip, last |-> trx[r].last]
      ]_vars

\* An IPv4 UDP sweep has a Node of the target with terminal = true in a row.
C11_Witness ==
    \E r \in Streams :
        /\ tfam = 4 /\ tin[r].proto = "UDP"
        /\ \E k \in 1..Len(trows[r]) : \E i \in 1..Len(trows[r][k]) :
              trows[r][k][i].ip = TargetIP /\ trows[r][k][i].last

\* C12: an ICMPv6 DestinationUnreachable of any sub-code citing the probe
\* of a waiting call is published to that call with terminal = true.
C12_Unreachable6Terminal ==
    [][ \A pkt \in tnet :
            tfam = 6 /\ pkt.kind = "Unreachable" /\ TraceRecv(pkt) =>
                \A r \in Streams :
                    TraceWaiter(r, ProbeKey(pkt.cite)) =>
                        trx'[r] = [ip |-> pkt.src, last |-> TRUE]
      ]_vars

\* C13: a TimeExceeded / HopLimitExceeded message is published with
\* terminal = false to whoever receives it, and a row whose Nodes all come
\* from hops other than the target with terminal = false is no boundary row:
\* the sweep goes on after it.
C13_TimeExceededNotTerminal ==
    [][ /\ \A pkt \in tnet :
              pkt.kind = "TimeExceeded" /\ TraceRecv(pkt) =>
                  /\ \A r \in Streams :
                        TraceWaiter(r, ProbeKey(pkt.cite)) =>
                            trx'[r] = [ip |-> pkt.src, last |-> FALSE]
                  /\ \A r \in Streams : trx'[r] # trx[r] => ~trx'[r].last
        /\ \A r \in Streams :
              /\ TraceRow(r)
              /\ \A i \in 1..Len(trow[r]) : trow[r][i].ip # TargetIP /\ ~trow[r][i].last
              /\ ~tdone[r]
              /\ Len(trows[r]) + 1 < tin[r].limit
              => tpc'[r] = "send" /\ Len(trows'[r]) = Len(trows[r]) + 1
      ]_vars

\* A sweep took a row answered by the router at hop 1 and went on to the
\* next ttl.
C13_Witness ==
    \E r \in Streams :
        /\ Len(trows[r]) >= 1 /\ tttl[r] = 2 /\ tpc[r] = "send"
        /\ trows[r][1][1] = [ttl |-> 1, ip |-> RouterIP(1), last |-> FALSE]

\* C14: an EchoReply from S for local address D with echo id i is looked up
\* under Key ICMP(D, S, i), the Key of the ICMP probe with source D,
\* destination S and id i: the lookup finds the call waiting under that Key,
\* and the reply is published with terminal = true to it and to no other.
C14_EchoReplyKeySwapped ==
    [][ \A pkt \in tnet :
            pkt.kind = "EchoReply" =>
                LET key == ProbeKey([proto |-> "ICMP", src |-> pkt.dst, num |-> pkt.num,
                                     dst |-> pkt.src])
                IN  \A r \in Streams :
                        /\ TraceWaiter(r, key) => r \in TraceStateSender(TraceRecvKey(pkt))
                        /\ TraceRecv(pkt) =>
                              /\ TraceWaiter(r, key) =>
                                    trx'[r] = [ip |-> pkt.src, last |-> TRUE]
                              /\ trx'[r] # trx[r] => TraceWaiter(r, key)
      ]_vars

\* C15: a TCP packet from remote IP R to the local socket (L, p) is looked
\* up under the Key of the trace/TCP probe with source (L, p) and
\* destination R: the lookup finds the call waiting under it and the packet
\* is published to it as Echo(R, arrival, true); with no such call nobody
\* receives anything.
C15_TcpKeyOfProbe ==
    [][ \A pkt \in tnet \cup TraceStrays :
            (pkt.kind = "TCP" /\ (trx' # trx \/ \E r \in Streams : tpc[r] = "waiting")) =>
                LET key == ProbeKey([proto |-> "TCP", src |-> pkt.dst, num |-> pkt.num,
                                     dst |-> pkt.src])
                IN  /\ \A r \in Streams :
                          TraceWaiter(r, key) => r \in TraceStateSender(TraceRecvKey(pkt))
                    /\ TraceRecv(pkt) =>
                          /\ \A r \in Streams :
                                /\ TraceWaiter(r, key) =>
                                      trx'[r] = [ip |-> pkt.src, last |-> TRUE]
                                /\ trx'[r] # trx[r] => TraceWaiter(r, key)
                          /\ (\A r \in Streams : ~TraceWaiter(r, key)) => trx' = trx
      ]_vars

\* A TCP call received the target's TCP answer while the other call, also
\* waiting on a TCP probe from another port, received nothing.
C15_Witness ==
    \E r \in Streams, q \in Streams :
        /\ r # q
        /\ tin[r].proto = "TCP" /\ tin[q].proto = "TCP"
        /\ tpc[r] = "waiting" /\ tpc[q] = "waiting"
        /\ trx[r] = [ip |-> TargetIP, last |-> TRUE]
        /\ trx[q] = NoEcho

\* Every background receive task of the engine has ended.
RecvTasksEnded ==
    /\ engine = "ping" => precv # "running"
    /\ engine = "knock" => krecv.st \notin {"running", "sending"}
    /\ engine = "trace" => \A task \in TraceTasks : trecv[task] # "running"

\* C16: once the engine is dropped, every background receive task it spawned
\* eventually terminates, whether or not another packet arrives.
C16_TasksEndAfterDrop == down ~> RecvTasksEnded

\* C17: a packet that fails to decode does not stop a receive loop: only a
\* failure of the socket receive (or the shutdown signal) ends the task, so a
\* valid reply that follows a malformed packet still reaches its waiter.
C17_MalformedKeepsLoop ==
    [][(precv = "running" /\ precv' # "running") => precv' \in {"sockerr", "stopped"}]_vars

\* A failed send is the stream's last item and the stream has ended.
SendErrIsFinal(items, pc) ==
    \A i \in 1..Len(items) :
        items[i] = "SendErr" => (i = Len(items) /\ pc = "failed")

\* C18: a failed send appears as an error item of the stream, the stream
\* ends with that item and the stream (or route call) sends no further
\* probe.
C18_SendErrorEndsStream ==
    [][/\ \A s \in Streams :
            /\ SendErrIsFinal(pitems[s], ppc[s])
            /\ SendErrIsFinal(kitems[s], kpc[s])
       /\ \A s \in Streams :
            PingSendFail(s) =>
                Last(pitems'[s]) = "SendErr" /\ ppc'[s] = "failed"
       /\ \A s \in Streams :
            KnockSendFail(s) =>
                Last(kitems'[s]) = "SendErr" /\ kpc'[s] = "failed"
       /\ \A r \in Streams :
            TraceSendFail(r) => tpc'[r] \in {"err", "ok"}]_vars

\* A send of a ping stream failed while the stream was asked for more items
\* than it has yielded: the stream has ended short of its count.
C18_Witness ==
    \E s \in Streams :
        /\ engine = "ping"
        /\ Len(pitems[s]) > 0
        /\ Last(pitems[s]) = "SendErr"
        /\ Len(pitems[s]) < pcount[s]
        /\ ppc[s] = "failed"

\* C19: a stream has at most one probe outstanding: a probe is sent only
\* when the result of every earlier probe of the stream has been produced,
\* and each result produced is that of the one probe outstanding, so results
\* come in issuance order.
C19_OneProbeOutstanding ==
    [][/\ \A s \in Streams : out[s] <= 1
       /\ \A s \in Streams :
            (PingSendOk(s) \/ KnockSendOk(s) \/ TraceSendOk(s)) => out[s] = 0
       /\ \A s \in Streams :
            (PingReply(s) \/ PingTimeout(s)) =>
                out[s] = 1 /\ Len(pitems'[s]) = pseq[s] + 1
       /\ \A s \in Streams :
            (KnockReply(s) \/ KnockTimeout(s) \/ TraceReply(s) \/ TraceTimeout(s)) =>
                out[s] = 1]_vars

\* The second probe of a ping stream is on the wire after the result of
\* the first was produced.
C19_Witness ==
    \E s \in Streams :
        engine = "ping" /\ Len(pitems[s]) = 1 /\ pseq[s] = 1 /\ out[s] = 1

\* C20: every RTT reported is arrival - sent when arrival >= sent and zero
\* otherwise, never negative; `sent` is the clock read when the send call has
\* returned, `arrival` the clock read by the receive loop on receipt of the
\* packet.
C20_RttSaturates ==
    [][/\ \A s \in Streams :
            PingSendOk(s) => psent'[s] = clock
       /\ \A tok \in Tokens, dlen \in DataLens :
            (PingRecv(tok, dlen) /\ pmap[tok] # NoSender /\ pmap'[tok] = NoSender) =>
                pwhen'[pmap[tok]] = clock
       /\ \A s \in Streams :
            (PingReply(s) /\ prx[s] = "value") =>
                /\ prtt'[s] >= 0
                /\ prtt'[s] = IF pwhen[s] >= psent[s]
                              THEN pwhen[s] - psent[s] ELSE 0]_vars

\* One stream reported a reply that arrived before its send call had
\* returned (RTT zero), the other a reply that arrived later than `sent`.
C20_Witness ==
    /\ engine = "ping"
    /\ \E s \in Streams :
        /\ pitems[s] = <<"Some">>
        /\ pwhen[s] < psent[s]
        /\ prtt[s] = 0
    /\ \E s \in Streams :
        /\ pitems[s] = <<"Some">>
        /\ pwhen[s] > psent[s]
        /\ prtt[s] = pwhen[s] - psent[s]

\* C21: every source port held by a live reservation (a knock Lease, an
\* entry of the trace TCP or UDP table, the Lease of a trace call) lies in
\* [PORT_MIN, PORT_MAX].
C21_PortsInRange ==
    /\ \A s \in Streams : KLive(s) => ksrc[s] \in PORT_MIN..PORT_MAX
    /\ \A k \in KKeys : kmap[k] # NoSender => k[1][2] \in PORT_MIN..PORT_MAX
    /\ \A p \in ttcp \cup tudp : p \in PORT_MIN..PORT_MAX
    /\ \A r \in Streams :
          (TLive(r) /\ tin[r].proto \in {"TCP", "UDP"}) => tsrc[r] \in PORT_MIN..PORT_MAX

\* Two knock Leases are live on the lowest and the highest port drawn.
C21_Witness ==
    /\ KLive(1) /\ KLive(2)
    /\ {ksrc[1], ksrc[2]} = {PORT_MIN, PORT_MAX - 1}

\* C22: constructing a Probe (knock, or trace ICMP / TCP / UDP) succeeds
\* exactly when source and destination are of one IP family; with one IPv4
\* and one IPv6 address, in either order, the result is the error "mixed
\* IPv4 and IPv6 addresses" and no probe.
C22_SameFamilyOrError ==
    (cin.op = "new" /\ cpc = "done") =>
        /\ cout.ok <=> Fam(cin.src) = Fam(cin.dst)
        /\ Fam(cin.src) # Fam(cin.dst) => cout = Err("mixed IPv4 and IPv6 addresses")

\* The UDP conversion has refused an IPv6 source with an IPv4 destination.
C22_Witness ==
    /\ cin.op = "new" /\ cpc = "done"
    /\ cin.who = "UDP"
    /\ Fam(cin.src) = 6 /\ Fam(cin.dst) = 4
    /\ ~cout.ok

\* C23: for every trace probe (ICMP, TCP, UDP, of either family) and every
\* ttl, decoding the probe's encoded packet as an ICMP error cites it (IP
\* header, then transport header) yields the Key probe.key().
C23_DecodeYieldsKey ==
    (cin.op = "encode" /\ cpc = "done") => cout = Ok(ProbeKey(cin.probe))

\* An IPv6 TCP probe with a later seq, and an IPv4 ICMP probe sent with the
\* largest ttl, were encoded and decoded.
C23_Witness ==
    /\ cin.op = "encode" /\ cpc = "done" /\ cout.ok
    /\ \/ cin.probe.proto = "TCP" /\ Fam(cin.probe.src) = 6 /\ cin.probe.seq = <<258, 772>>
       \/ cin.probe.proto = "ICMP" /\ Fam(cin.probe.src) = 4 /\ cin.ttl = U8 - 1

\* The probe with its advancing field n greater, as a number.
Advanced(probe, n) ==
    CASE probe.proto = "ICMP" -> [probe EXCEPT !.seq = <<0, @[2] + n>>]
      [] probe.proto = "TCP"  ->
            [probe EXCEPT !.seq = IF @[2] + n < U16 THEN <<@[1], @[2] + n>>
                                  ELSE <<@[1] + 1, @[2] + n - U16>>]
      [] OTHER                -> [probe EXCEPT !.dport = @ + n]

\* C24: every increment() call returns, after n calls the advancing field
\* (seq of an ICMP or TCP probe, destination port of a UDP probe) is n
\* greater than it was at the start, whatever it was, nothing else has
\* changed, and probe.key() is what it was.
C24_IncrementAdvancesByOne ==
    cin.op = "inc" =>
        /\ cpc # "panicked"
        /\ cpc = "done" =>
              /\ cout.val.probe = Advanced(cin.probe, cout.val.n)
              /\ ProbeKey(cout.val.probe) = ProbeKey(cin.probe)

\* The one's-complement sum of the 16-bit big-endian words of a packet, an
\* odd trailing byte padded with zero: the sum of the words with the
\* carries folded back in, which is the sum modulo 0xFFFF with 0xFFFF in
\* place of 0 for a sum that is not 0.
RECURSIVE WordSum(_)
WordSum(pkt) ==
    IF Len(pkt) = 0 THEN 0
    ELSE IF Len(pkt) = 1 THEN 256 * pkt[1]
    ELSE 256 * pkt[1] + pkt[2] + WordSum(Tail(Tail(pkt)))
OnesComplementSum(pkt) ==
    IF WordSum(pkt) = 0 THEN 0 ELSE ((WordSum(pkt) - 1) % (U16 - 1)) + 1

\* C25: an ICMPv4 echo packet built with a zero checksum field, with
\* checksum(pkt) written into the field, has the one's-complement sum 0xFFFF
\* over all its 16-bit big-endian words.
C25_ChecksumVerifies ==
    (cin.op = "sum" /\ cpc = "done") =>
        /\ Len(cout.val) = Len(cin.pkt)
        /\ OnesComplementSum(cout.val) = U16 - 1

\* A packet of odd length whose words sum past 16 bits got its checksum.
C25_Witness ==
    /\ cin.op = "sum" /\ cpc = "done"
    /\ Len(cin.pkt) % 2 = 1
    /\ WordSum(cin.pkt) >= U16
    /\ <<cout.val[3], cout.val[4]>> = ToBeBytes(Checksum(cin.pkt))

\* The variant (and sub-variant of an Unreachable) tabulated for a type and
\* code of each decoder.
Tabulated(fam, kind, code) ==
    IF fam = 4
    THEN CASE kind = 0 /\ code = 0 -> <<"EchoReply", "">>
           [] kind = 8 /\ code = 0 -> <<"EchoRequest", "">>
           [] kind = 11            -> <<"TimeExceeded", "">>
           [] kind = 3 /\ code = 0 -> <<"Unreachable", "Net">>
           [] kind = 3 /\ code = 1 -> <<"Unreachable", "Host">>
           [] kind = 3 /\ code = 2 -> <<"Unreachable", "Protocol">>
           [] kind = 3 /\ code = 3 -> <<"Unreachable", "Port">>
           [] kind = 3             -> <<"Unreachable", "Other">>
           [] OTHER                -> <<"Other", "">>
    ELSE CASE kind = 1 /\ code = 3   -> <<"Unreachable", "Address">>
           [] kind = 1 /\ code = 4   -> <<"Unreachable", "Port">>
           [] kind = 1               -> <<"Unreachable", "Other">>
           [] kind = 3 /\ code = 0   -> <<"HopLimitExceeded", "">>
           [] kind = 3 /\ code = 1   -> <<"ReassemblyTimeExceeded", "">>
           [] kind = 128 /\ code = 0 -> <<"EchoRequest", "">>
           [] kind = 129 /\ code = 0 -> <<"EchoReply", "">>
           [] OTHER                  -> <<"Other", "">>

\* The decoder returned the tabulated variant; an Other carries type, code
\* and the payload behind the checksum.
ClassifiedAsTabulated ==
    /\ cout.ok
    /\ <<cout.val.variant, cout.val.sub>> = Tabulated(cin.fam, cin.pkt[1], cin.pkt[2])
    /\ cout.val.variant = "Other" =>
          /\ cout.val.args = <<cin.pkt[1], cin.pkt[2]>>
          /\ cout.val.data = SubSeq(cin.pkt, 5, Len(cin.pkt))

\* C26: the ICMP decoders classify every message of at least 8 bytes by
\* (type, code) as tabulated: they return, and return the tabulated variant;
\* every other (type, code) is kept as Other(type, code, payload).
C26_ClassifiesAsTabulated ==
    (cin.op = "classify" /\ Len(cin.pkt) >= 8) =>
        /\ cpc # "panicked"
        /\ cpc = "done" => ClassifiedAsTabulated

\* C27: in a sweep, the reply elicited by one probe is never reported as
\* the Node of another: the router h hops away answers TimeExceeded to the
\* probes sent with ttl h only, so a Node carrying its address carries
\* ttl h.
C27_NodeOfOwnProbe ==
    \A r \in Streams :
        \A i \in 1..Len(trows[r]) \cup {0} :
            LET row == IF i = 0 THEN trow[r] ELSE trows[r][i]
            IN  \A j \in 1..Len(row), h \in 1..PathLen :
                    row[j].ip = RouterIP(h) => row[j].ttl = h

\* C28: a reply for a knock probe's Key that does not match (an RST, a
\* SYN+ACK with another acknowledgment number, a late reply to an earlier
\* probe) does not end the wait: a probe whose matching SYN+ACK reached the
\* receive loop before the wait ended yields Some.
C28_MismatchDoesNotEndWait ==
    [][ \A s \in Streams :
          (kpc[s] = "waiting" /\ kpc'[s] \in {"ready", "done"} /\ khit[s]) =>
              Last(kitems'[s]) = "Some"
      ]_vars

\* C29: a reply to a trace probe that the receive loop processes after the
\* probe's send has returned is delivered to the probe's waiter, also before
\* the waiter has subscribed to the Key: whenever a call's send has returned
\* and a reply for its Key is ready for a running receive loop, the loop's
\* iteration on it hands the call the Echo.
C29_NoReplyLostAfterSend ==
    \A r \in Streams : \A pkt \in tnet :
        ( /\ tpc[r] = "sent"
          /\ TLive(r)
          /\ TraceRecvKey(pkt) = ProbeKey(TraceHeader(r))
          /\ trecv[TraceTaskOf(pkt)] = "running"
          /\ ~Recv4EchoPanics(pkt) ) =>
            ENABLED ( /\ TraceRecv(pkt)
                      /\ trx'[r] = [ip |-> pkt.src, last |-> TraceRecvLast(pkt)] )

\* C30: the Key of every ping and knock probe is in the demux map before
\* the packet is handed to the socket, so from then on, while the probe's
\* Lease is alive and no reply has been handed to it, the Key is registered
\* and leads to the probe's own waiter.
C30_RegisteredFromSendOn ==
    /\ \A s \in Streams :
          (engine = "ping" /\ ppc[s] \in {"sent", "waiting"} /\ pgot[s] = 0) =>
              pmap[ptoken[s]] = s
    /\ \A s \in Streams :
          (engine = "knock" /\ kpc[s] = "waiting" /\ KLive(s)) =>
              KnockStateSender(kmap, KLeaseKey(s)[1], KLeaseKey(s)[2]) = s

\* C31: once a route call has taken a boundary row (one with a terminal Node
\* or a hop equal to the target) it has no probe on the wire any more: no
\* probe is sent with a ttl above that row's.
C31_NoSendPastBoundary ==
    \A r \in Streams :
        (\E k \in 1..Len(trows[r]) : RouteBoundary(trows[r][k])) =>
            tpc[r] \notin {"sent", "waiting"}

\* C32: an echo reply that carries the token of a registered probe in at
\* least 16 bytes of echo data is matched to that probe: whatever the length
\* of the data, the receive loop's iteration on it hands the arrival time to
\* the probe's Lease and takes the token out of the map.
C32_LongReplyMatched ==
    \A s \in Streams, dlen \in DataLens :
        (/\ dlen >= TOKEN_SIZE
         /\ precv = "running"
         /\ ptoken[s] \in pnet
         /\ pmap[ptoken[s]] = s)
        => ENABLED (/\ PingRecv(ptoken[s], dlen)
                    /\ pgot'[s] = pgot[s] + 1
                    /\ pmap'[ptoken[s]] = NoSender)

\* C33: the map entry of an outstanding ping probe is removed or replaced
\* only by that probe's own stream or by the receive loop delivering to it:
\* a step in which the stream does not move and gets no reply leaves its
\* Sender in the map, also when another probe carries the same token.
C33_OthersEntryKept ==
    [][\A o \in Streams :
          (/\ PLive(o)
           /\ pmap[ptoken[o]] = o
           /\ ppc'[o] = ppc[o]
           /\ pgot'[o] = pgot[o])
          => pmap'[ptoken[o]] = o]_vars

C35_DecodeNeverPanics ==
    cin.op = "classify" => cpc # "panicked"

\* The ports of the range whose Key is vacant for a reserve of stream s
\* (knock) or call r (trace).
KnockVacantPorts == {p \in Ports : KnockVacant(kmap, KnockKey(<<LocalIP, p>>, KTarget))}
TraceVacantPorts(r) == Ports \ TraceTable(tin[r].proto)

\* C36: a reserve that has not returned eventually returns (or is dropped
\* by its caller) unless no Key of the range is vacant; a pass that draws a
\* vacant Key returns with the Key inserted, a pass that draws an occupied
\* one yields and changes no entry (so with no Key vacant no pass returns).
C36_ReserveReturns ==
    /\ \A s \in Streams :
          (engine = "knock" /\ kpc[s] \in {"reserve", "yield"})
          ~> (kpc[s] \notin {"reserve", "yield"} \/ KnockVacantPorts = {})
    /\ \A r \in Streams :
          (engine = "trace" /\ tpc[r] \in {"reserve", "yield"})
          ~> (tpc[r] \notin {"reserve", "yield"} \/ TraceVacantPorts(r) = {})
    /\ [][ /\ \A s \in Streams :
                (kpc[s] = "reserve" /\ kpc'[s] # "reserve") =>
                    \/ kpc'[s] \in {"ready", "done"} /\ ksrc'[s] \in KnockVacantPorts
                                                     /\ kmap'[KLeaseKey(s)'] = s
                    \/ kpc'[s] = "yield" /\ kmap' = kmap
           /\ \A r \in Streams :
                (tpc[r] = "reserve" /\ tpc'[r] # "reserve") =>
                    \/ tpc'[r] = "poll" /\ tsrc'[r] \in TraceVacantPorts(r)
                                        /\ tsrc'[r] \in TraceTable(tin[r].proto)'
                    \/ tpc'[r] = "yield" /\ UNCHANGED <<ttcp, tudp, ticmp>>
       ]_vars

\* A knock reserve drew an occupied port while another port of the range
\* was vacant, and has yielded.
C36_Witness ==
    \E s \in Streams :
        /\ engine = "knock"
        /\ kpc[s] = "yield"
        /\ KnockVacantPorts # {}
        /\ KnockVacantPorts # Ports

\* C37: on a path where nothing answers, the sweep does not abort on its
\* ttl counter, and the probes of the row after k rows are sent with ttl
\* k + 1, a value in 1..255.
C37_TtlNeverWraps ==
    \A r \in Streams :
        tdist = 0 =>
            /\ tpc[r] # "panicked"
            /\ tpc[r] \in {"send", "sent", "waiting", "row"} =>
                  tttl[r] = Len(trows[r]) + 1 /\ tttl[r] \in 1..(U8 - 1)

\* C38: a probe with the largest sequence number whose wait ends on a
\* SYN+ACK acknowledging 0 (unless its stream is dropped) yields Some: the
\* match test wraps and does not fail.
C38_MatchWraps ==
    [][\A s \in Streams :
          (/\ kpc[s] = "waiting"
           /\ kseq[s] = U32Max
           /\ kq[s] # <<>>
           /\ Head(kq[s]) = [syn |-> TRUE, ack |-> TRUE, num |-> <<0, 0>>]
           /\ kpc'[s] \notin {"waiting", "dropped"})
          => /\ kpc'[s] \in {"ready", "done"}
             /\ Last(kitems'[s]) = "Some"]_vars

\* C39: probe number k of a ping stream (counted from 0) is built with the
\* sequence number k mod 2^16.
C39_SeqIsCountModU16 ==
    (cin.op = "unfold" /\ cpc = "done") => cout.val.seq = cout.val.k % U16

\* The stream has built probe number 65536, with a sequence number that has
\* wrapped to 0.
C39_Witness ==
    /\ cin.op = "unfold"
    /\ cpc = "done"
    /\ cout.val.k = U16
    /\ cout.val.seq = 0

\* C40: a task that is suspended in an .await does not hold the lock of the
\* demux map.
C40_NoLockAcrossAwait ==
    \A t \in LockTasks : lpc[t] \in LockSuspended => mlock # t

\* A reserve found its Key occupied and awaits yield_now() while the
\* receive loop holds the lock for a lookup.
C40_Witness ==
    \E s \in Streams :
        /\ lpc[s] = "yield"
        /\ mlock = RecvTask
        /\ lpc[RecvTask] = "lookup"

====
